---- MODULE Spec2Model ----
(***************************************************************************)
(* Model of the Maven dependency tracer (maven_dependency_tracer.py):      *)
(* the analysis passes over the tool's tree text (verbose parser, plain    *)
(* parser, POM passes, chain rebuild), classification of missing           *)
(* dependencies, selective mirroring between two repositories (sequential  *)
(* and worker-pool path), report generation and the exit status of main.   *)
(*                                                                         *)
(* Strings are sequences of tokens; the tokens ".", "/" and ":" are the    *)
(* characters the code treats specially.  A path is a sequence of          *)
(* components, each component a token sequence.                            *)
(***************************************************************************)
EXTENDS Naturals, Integers, Sequences, FiniteSets, Bags, TLC

VARIABLES
    pc,                   \* position of main / of the function under test
    args,                 \* command line: [analyze_only, copy_missing_only, threads]
    project,              \* what the analysis passes will read (tool output, POMs)
    prev_report,          \* essential + plugin keys of a previous report, or NoReport
    dependencies,         \* self.dependencies: dep_key -> dep_info
    dep_order,            \* insertion order of self.dependencies
    dependency_chains,    \* self.dependency_chains: dep_key -> list of chains
    source_fs,            \* files and directories under source_repo
    unreadable,           \* source files whose copy raises an OSError
    target_fs,            \* files and directories under target_repo
    copied_files,         \* self.copied_files (bag of target paths)
    failed_copies,        \* self.failed_copies
    missing_dependencies, \* self.missing_dependencies
    todo,                 \* keys still to be handed to copy_dependency_with_tracking
    running,              \* calls of copy_dependency_with_tracking in progress
    futures,              \* results of finished pool tasks
    success_count,        \* success_count of the copy loop
    missing_analysis,     \* result of analyze_missing_dependencies
    exit_status,          \* return value of main (NoExit while running)
    calls,                \* history: number of calls of copy_dependency_with_tracking per key
    returned,             \* history: result of every finished call, in order
    written,              \* history: <<dep_key, target path>> of every file write
    stdout,               \* lines of the tool output still to be read by the running pass
    current_chain,        \* current_chain of _parse_verbose_dependency_tree
    stack,                \* stack of _rebuild_chains_from_tree
    seen,                 \* history: the lines the running pass has read
    invocations,          \* history: the tree invocations of the tool and their outcome
    parsed_by,            \* history: <<dep_key, parser>> of every record stored from tree text
    cleaner,              \* MavenCacheCleaner: [dry_run, threads], or None before construction
    repo_fs,              \* files and directories under the cleaner's repo_path
    locked,               \* files of repo_fs whose deletion raises an OSError
    cleaned_files,        \* self.cleaned_files (bag of paths)
    cleaned_dirs,         \* self.cleaned_dirs
    errors,               \* self.errors (the set of the paths they name)
    files_to_clean,       \* files_to_clean not yet handed to clean_file
    cleaning,             \* files unlinked by a clean_file call that has not returned
    all_dirs,             \* all_dirs of clean_empty_directories still to visit
    swept                 \* history: the cleaner operations that have returned

\* the state of the tree passes
tree_vars == <<stdout, current_chain, stack, seen, invocations, parsed_by>>

\* the state of the cache cleaner
sweep_vars == <<cleaner, repo_fs, locked, cleaned_files, cleaned_dirs, errors,
                files_to_clean, cleaning, all_dirs, swept>>

vars == <<pc, args, project, prev_report, dependencies, dep_order,
          dependency_chains, source_fs, unreadable, target_fs, copied_files,
          failed_copies, missing_dependencies, todo, running, futures,
          success_count, missing_analysis, exit_status, calls, returned, written,
          tree_vars, sweep_vars>>

----------------------------------------------------------------------------
(* Strings and paths *)

\* str.replace(old, new) for one-character old/new
Replace(s, old, new) == [i \in 1..Len(s) |-> IF s[i] = old THEN new ELSE s[i]]

RECURSIVE SplitAcc(_, _, _)
SplitAcc(s, cur, acc) ==
    IF s = <<>> THEN (IF cur = <<>> THEN acc ELSE Append(acc, cur))
    ELSE IF Head(s) = "/"
         THEN SplitAcc(Tail(s), <<>>, IF cur = <<>> THEN acc ELSE Append(acc, cur))
         ELSE SplitAcc(Tail(s), Append(cur, Head(s)), acc)

\* the components pathlib gives a relative path string (empty components dropped)
PathParts(s) == SplitAcc(s, <<>>, <<>>)

Parent(p) == SubSeq(p, 1, Len(p) - 1)

\* every ancestor directory of p, p included (mkdir(parents=True))
WithParents(p) == {SubSeq(p, 1, i) : i \in 0..Len(p)}

\* f"{group_id}:{artifact_id}"
DepKey(group_id, artifact_id) == group_id \o <<":">> \o artifact_id

----------------------------------------------------------------------------
(* Artifact records *)

NoVersion == <<>>              \* version None or '' (both falsy)
LATEST    == <<"LATEST">>
V10       == <<"1", ".", "0">>

DepInfo(group_id, artifact_id, version, packaging, scope, optional, excluded) ==
    [groupId |-> group_id, artifactId |-> artifact_id, version |-> version,
     packaging |-> packaging, scope |-> scope, optional |-> optional,
     excluded |-> excluded]

KeyOf(info) == DepKey(info.groupId, info.artifactId)

\* a table as a function from the keys of a set of records
TableOf(infos) == [k \in {KeyOf(i) : i \in infos} |-> CHOOSE i \in infos : KeyOf(i) = k]

EmptyTable == [k \in {} |-> 0]

----------------------------------------------------------------------------
(* analyze_missing_dependencies *)

None == [none |-> TRUE]

BucketNames == {"essential", "optional", "provided", "plugin", "conflict"}

\* Bucket with the optional test moved ahead of the provided test
Bucket_OptionalFirst(dep_info) ==
    IF dep_info.excluded THEN "conflict"
    ELSE IF dep_info.optional THEN "optional"
    ELSE IF dep_info.scope = "provided" THEN "provided"
    ELSE IF dep_info.packaging = "maven-plugin" THEN "plugin"
    ELSE "essential"

\* the if/elif chain of the classification loop
Bucket(dep_info) ==
    IF dep_info.excluded THEN "conflict"
    ELSE IF dep_info.scope = "provided" THEN "provided"
    ELSE IF dep_info.optional THEN "optional"
    ELSE IF dep_info.packaging = "maven-plugin" THEN "plugin"
    ELSE "essential"

RECURSIVE Filter(_, _, _, _)
Filter(deps, keys, name, acc) ==
    IF keys = <<>> THEN acc
    ELSE Filter(deps, Tail(keys), name,
                IF Bucket(deps[Head(keys)]) = name THEN Append(acc, Head(keys)) ELSE acc)

analyze_missing_dependencies(deps, missing) ==
    IF missing = <<>> THEN None
    ELSE [none      |-> FALSE,
          essential |-> Filter(deps, missing, "essential", <<>>),
          optional  |-> Filter(deps, missing, "optional", <<>>),
          provided  |-> Filter(deps, missing, "provided", <<>>),
          plugin    |-> Filter(deps, missing, "plugin", <<>>),
          conflict  |-> Filter(deps, missing, "conflict", <<>>)]

Range(s) == {s[i] : i \in 1..Len(s)}

SeqsUpTo(S, n) == UNION {[1..m -> S] : m \in 0..n}

----------------------------------------------------------------------------
(* Repositories: a file system is [files, dirs], both sets of paths *)

EmptyFS == [files |-> {}, dirs |-> {}]

Exists(fs, p) == p \in fs.files \/ p \in fs.dirs

\* the regular files directly inside directory d (iterdir + is_file)
FilesIn(fs, d) == {f \in fs.files : Len(f) = Len(d) + 1 /\ Parent(f) = d}

\* Path.mkdir(parents=True, exist_ok=True)
Mkdir(fs, d) == [fs EXCEPT !.dirs = @ \cup WithParents(d)]

\* WriteFile that keeps an existing file and writes beside it
WriteFile_KeepBoth(fs, f) ==
    [fs EXCEPT !.files = @ \cup {IF f \in fs.files
                                 THEN Append(Parent(f), f[Len(f)] \o <<"~">>) ELSE f}]

\* open(path, 'w') / shutil.copy2 onto path
WriteFile(fs, f) == [fs EXCEPT !.files = @ \cup {f}]

\* f"{group_path}/{artifact_id}/{version}" with group_path = group_id.replace('.', '/')
ArtifactPath(group_id, artifact_id, version) ==
    Replace(group_id, ".", "/") \o <<"/">> \o artifact_id \o <<"/">> \o version

\* source_repo / artifact_path and target_repo / artifact_path, relative to the repository
ArtifactDir(dep_info) ==
    PathParts(ArtifactPath(dep_info.groupId, dep_info.artifactId, dep_info.version))

\* glob('maven-metadata*') in directory d
MetadataIn(fs, d) == {f \in FilesIn(fs, d) : Head(f[Len(f)]) = "maven-metadata"}

MetadataName == <<"maven-metadata", ".", "xml">>
JarName(artifact_id, version) == artifact_id \o <<"-">> \o version \o <<".", "jar">>

ReportFile   == << <<"dependency-analysis-report", ".", "json">> >>
ScriptFile   == << <<"download-missing-deps", ".", "sh">> >>
SettingsFile == << <<"settings", ".", "xml">> >>

\* the repository layout holding the stored artifacts: one jar per version
\* directory, and a metadata file per artifact directory when st.meta
StoredFiles(st) ==
    LET vdir == PathParts(ArtifactPath(st.groupId, st.artifactId, st.version))
    IN  {Append(vdir, JarName(st.artifactId, st.version))}
        \cup (IF st.meta THEN {Append(Parent(vdir), MetadataName)} ELSE {})

RepoOf(stored) ==
    LET fs == UNION {StoredFiles(st) : st \in stored}
    IN  [files |-> fs, dirs |-> UNION {WithParents(Parent(f)) : f \in fs}]

Stored(group_id, artifact_id, version, meta) ==
    [groupId |-> group_id, artifactId |-> artifact_id, version |-> version, meta |-> meta]

----------------------------------------------------------------------------
(* The bounded universe of inputs *)

MaxMissing == 2      \* longest missing list handed to the classifier alone
MaxRetry   == 2      \* longest key list read from a previous report
MaxWorkers == 2      \* largest --threads value
NumFill    == 10     \* plain library artifacts of the large project

PoolThreshold == 10  \* len(active_deps) < 10 runs sequentially

G_foo    == <<"org", ".", "foo">>
G_foobar == <<"org", ".", "foo", ".", "bar">>
G_lib    == <<"lib">>

KA == DepKey(G_foo, <<"bar">>)       \* org.foo:bar
KB == DepKey(G_foobar, <<"baz">>)    \* org.foo.bar:baz, a child of KA in the tree
KC == DepKey(G_foo, <<"plug">>)      \* org.foo:plug, declared in the effective POM
KZ == DepKey(G_foo, <<"gone">>)      \* a key no pass of this run produces
KF(i) == DepKey(G_lib, <<"f", ToString(i)>>)

FillKeys == {KF(i) : i \in 1..NumFill}
AllKeys  == {KA, KB, KC, KZ} \cup FillKeys

\* records the tree parser can store for KA and KB
AInfos == {DepInfo(G_foo, <<"bar">>, V10, "jar", "compile", FALSE, FALSE),
           DepInfo(G_foo, <<"bar">>, <<"baz">>, "jar", "compile", FALSE, FALSE),
           DepInfo(G_foo, <<"bar">>, V10, "jar", "compile", TRUE, FALSE),
           DepInfo(G_foo, <<"bar">>, V10, "jar", "compile", FALSE, TRUE)}
BInfos == {DepInfo(G_foobar, <<"baz">>, V10, "jar", "compile", FALSE, FALSE),
           DepInfo(G_foobar, <<"baz">>, V10, "jar", "provided", FALSE, FALSE),
           DepInfo(G_foobar, <<"baz">>, V10, "jar", "compile", FALSE, TRUE)}
\* records the effective-POM pass can store for KC (plugin, or managed dependency)
CInfos == {DepInfo(G_foo, <<"plug">>, LATEST, "maven-plugin", "plugin", FALSE, FALSE),
           DepInfo(G_foo, <<"plug">>, V10, "maven-plugin", "plugin", FALSE, FALSE),
           DepInfo(G_foo, <<"plug">>, NoVersion, "jar", "compile", FALSE, FALSE)}
FillInfo(i) == DepInfo(G_lib, <<"f", ToString(i)>>, V10, "jar", "compile", FALSE, FALSE)

KeyOrder == <<KA, KB, KC>> \o [i \in 1..NumFill |-> KF(i)]

OrderOf(keys) == SelectSeq(KeyOrder, LAMBDA k : k \in keys)

\* the chain map the tree pass leaves: KB is reached through KA
ChainsOf(table) ==
    IF {KA, KB} \subseteq DOMAIN table THEN (KB :> << <<KA, KB>> >>) ELSE <<>>

Project(infos) ==
    LET t == TableOf(infos)
    IN  [deps |-> t, order |-> OrderOf(DOMAIN t), chains |-> ChainsOf(t)]

OneOrNone(S) == {{}} \cup {{x} : x \in S}

SmallProjects ==
    {Project(a \cup b \cup c) : a \in OneOrNone(AInfos), b \in OneOrNone(BInfos),
                                c \in OneOrNone(CInfos)}

SA == Stored(G_foo, <<"bar">>, V10, TRUE)
SB == Stored(G_foobar, <<"baz">>, V10, TRUE)
SC == Stored(G_foo, <<"plug">>, V10, TRUE)
SL == Stored(G_foo, <<"plug">>, LATEST, TRUE)
SF(i) == Stored(G_lib, <<"f", ToString(i)>>, V10, FALSE)

----------------------------------------------------------------------------
(* copy_dependency_with_tracking, one step at a time *)

NoReport == [none |-> TRUE]
NoExit   == <<>>

Remove(f, k) == [x \in DOMAIN f \ {k} |-> f[x]]

\* self.dependency_chains.get(dep_key, [])
ChainsGet(chains, k) == IF k \in DOMAIN chains THEN chains[k] ELSE <<>>

\* VersionMissing without the test for the LATEST sentinel
VersionMissing_NoSentinel(version) == version = NoVersion

\* not version or version == 'LATEST'
VersionMissing(version) == version = NoVersion \/ version = LATEST

\* ErrorInfo that does not look the chains up
ErrorInfo_NoChains(k, error) ==
    [key |-> k, error |-> error, chains |-> <<>>, info |-> dependencies[k]]

\* error_info of the three failure branches (lines 427-432, 443-449, 479-484)
ErrorInfo(k, error) ==
    [key |-> k, error |-> error, chains |-> ChainsGet(dependency_chains, k),
     info |-> dependencies[k]]

\* the loop that follows once the current one has no file left:
\* the file loop is followed by the metadata loop, the metadata loop by return True
Advance(k, stage, left) ==
    LET dir  == ArtifactDir(dependencies[k])
        meta == MetadataIn(source_fs, Parent(dir))
    IN  IF left # {} THEN [pc |-> stage, left |-> left]
        ELSE IF stage = "files" /\ meta # {} THEN [pc |-> "meta", left |-> meta]
        ELSE [pc |-> "return", left |-> {}]

\* the call returns: the sequential loops count the result at once, a pool
\* worker stores it in the task's future
Return(k, result) ==
    /\ running' = Remove(running, k)
    /\ returned' = returned (+) SetToBag({<<k, result>>})
    /\ IF pc = "pool"
       THEN futures' = (k :> result) @@ futures /\ UNCHANGED success_count
       ELSE success_count' = success_count + (IF result THEN 1 ELSE 0)
            /\ UNCHANGED futures

Capacity == IF pc = "pool" THEN args.threads ELSE 1

\* entry of the call up to the first file operation (lines 417-455)
CopyBegin(k) ==
    /\ pc \in {"seq", "retry", "pool"}
    /\ todo # <<>> /\ k = Head(todo)
    /\ Cardinality(DOMAIN running) < Capacity
    /\ todo' = Tail(todo)
    /\ calls' = [calls EXCEPT ![k] = @ + 1]
    /\ UNCHANGED <<sweep_vars, tree_vars, pc, args, project, prev_report, dependencies, dep_order,
                   dependency_chains, source_fs, unreadable, copied_files,
                   missing_dependencies, missing_analysis, exit_status, written>>
    /\ IF k \notin DOMAIN dependencies
       THEN Return(k, FALSE) /\ UNCHANGED <<failed_copies, target_fs>>
       ELSE IF VersionMissing(dependencies[k].version)
       THEN /\ failed_copies' = Append(failed_copies, ErrorInfo(k, "version"))
            /\ Return(k, FALSE)
            /\ UNCHANGED target_fs
       ELSE LET dir == ArtifactDir(dependencies[k])
            IN  IF ~Exists(source_fs, dir)
                THEN /\ failed_copies' = Append(failed_copies, ErrorInfo(k, "source"))
                     /\ running' = (k :> [pc |-> "missing", left |-> {}]) @@ running
                     /\ UNCHANGED <<target_fs, futures, success_count, returned>>
                ELSE /\ target_fs' = Mkdir(target_fs, dir)
                     /\ running' = (k :> (IF dir \in source_fs.dirs
                                          THEN Advance(k, "files", FilesIn(source_fs, dir))
                                          ELSE [pc |-> "except", left |-> {}])) @@ running
                     /\ UNCHANGED <<failed_copies, futures, success_count, returned>>

\* self.missing_dependencies.append(dep_key); return False (lines 451-452)
CopyMissing(k) ==
    /\ k \in DOMAIN running /\ running[k].pc = "missing"
    /\ missing_dependencies' = Append(missing_dependencies, k)
    /\ Return(k, FALSE)
    /\ UNCHANGED <<sweep_vars, tree_vars, pc, args, project, prev_report, dependencies, dep_order,
                   dependency_chains, source_fs, unreadable, target_fs, copied_files,
                   failed_copies, todo, missing_analysis, exit_status, calls, written>>

\* one shutil.copy2 of either loop (lines 458-473); the target of a file of the
\* version directory is target_dir, of a metadata file target_dir.parent
CopyFile(k) ==
    /\ k \in DOMAIN running /\ running[k].pc \in {"files", "meta"}
    /\ \E f \in running[k].left :
        LET dir    == ArtifactDir(dependencies[k])
            tdir   == IF running[k].pc = "files" THEN dir ELSE Parent(dir)
            target == Append(tdir, f[Len(f)])
        IN  IF f \in unreadable
            THEN /\ running' = [running EXCEPT ![k] = [pc |-> "except", left |-> {}]]
                 /\ UNCHANGED <<target_fs, copied_files, written>>
            ELSE /\ target_fs' = WriteFile(IF running[k].pc = "meta"
                                            THEN Mkdir(target_fs, tdir)
                                            ELSE target_fs, target)
                 /\ copied_files' = copied_files (+) SetToBag({target})
                 /\ written' = written \cup {<<k, target>>}
                 /\ running' = [running EXCEPT
                                  ![k] = Advance(k, running[k].pc, running[k].left \ {f})]
    /\ UNCHANGED <<sweep_vars, tree_vars, pc, args, project, prev_report, dependencies, dep_order,
                   dependency_chains, source_fs, unreadable, failed_copies,
                   missing_dependencies, todo, futures, success_count,
                   missing_analysis, exit_status, calls, returned>>

\* return True (line 476)
CopyReturn(k) ==
    /\ k \in DOMAIN running /\ running[k].pc = "return"
    /\ Return(k, TRUE)
    /\ UNCHANGED <<sweep_vars, tree_vars, pc, args, project, prev_report, dependencies, dep_order,
                   dependency_chains, source_fs, unreadable, target_fs, copied_files,
                   failed_copies, missing_dependencies, todo, missing_analysis,
                   exit_status, calls, written>>

\* CopyExcept without the handler: the exception leaves the call and the copy
\* loop and ends main in its own handler
CopyExcept_Propagates(k) ==
    /\ k \in DOMAIN running /\ running[k].pc = "except"
    /\ running' = Remove(running, k)
    /\ pc' = "done"
    /\ exit_status' = <<1>>
    /\ UNCHANGED <<sweep_vars, tree_vars, args, project, prev_report, dependencies, dep_order,
                   dependency_chains, source_fs, unreadable, target_fs, copied_files,
                   failed_copies, missing_dependencies, todo, futures, success_count,
                   missing_analysis, calls, returned, written>>

\* except Exception: record the failure, return False (lines 478-486)
CopyExcept(k) ==
    /\ k \in DOMAIN running /\ running[k].pc = "except"
    /\ failed_copies' = Append(failed_copies, ErrorInfo(k, "copy"))
    /\ Return(k, FALSE)
    /\ UNCHANGED <<sweep_vars, tree_vars, pc, args, project, prev_report, dependencies, dep_order,
                   dependency_chains, source_fs, unreadable, target_fs, copied_files,
                   missing_dependencies, todo, missing_analysis, exit_status,
                   calls, written>>

----------------------------------------------------------------------------
(* main *)

\* {k: v for k, v in self.dependencies.items() if not v.get('excluded', False)}
ActiveDeps(deps) == {k \in DOMAIN deps : ~deps[k].excluded}

\* step 1: analyze_dependencies_with_tracing fills the table and the chain map
\* (lines 979-985); an empty table ends the run with status 1
Analyze ==
    /\ pc = "start"
    /\ dependencies' = project.deps
    /\ dep_order' = project.order
    /\ dependency_chains' = project.chains
    /\ IF DOMAIN project.deps = {}
       THEN pc' = "done" /\ exit_status' = <<1>>
       ELSE pc' = (IF args.analyze_only THEN "report" ELSE "copy")
            /\ UNCHANGED exit_status
    /\ UNCHANGED <<sweep_vars, tree_vars, args, project, prev_report, source_fs, unreadable, target_fs,
                   copied_files, failed_copies, missing_dependencies, todo, running,
                   futures, success_count, missing_analysis, calls, returned, written>>

\* copy_all_dependencies_with_tracking up to the choice of the path (lines 490-508)
StartMirror ==
    /\ pc = "copy"
    /\ ~(args.copy_missing_only /\ ReportFile \in target_fs.files)
    /\ IF DOMAIN dependencies = {}
       THEN pc' = "report" /\ UNCHANGED <<target_fs, todo>>
       ELSE LET active == ActiveDeps(dependencies)
            IN  /\ target_fs' = Mkdir(target_fs, <<>>)
                /\ todo' = SelectSeq(dep_order, LAMBDA k : k \in active)
                /\ pc' = (IF Cardinality(active) < PoolThreshold THEN "seq" ELSE "pool")
    /\ success_count' = 0
    /\ UNCHANGED <<sweep_vars, tree_vars, args, project, prev_report, dependencies, dep_order,
                   dependency_chains, source_fs, unreadable, copied_files,
                   failed_copies, missing_dependencies, running, futures,
                   missing_analysis, exit_status, calls, returned, written>>

\* --copy-missing-only with a previous report: retry its essential and plugin
\* keys (lines 992-1004)
StartRetry ==
    /\ pc = "copy"
    /\ args.copy_missing_only /\ ReportFile \in target_fs.files
    /\ todo' = prev_report.keys
    /\ success_count' = 0
    /\ pc' = "retry"
    /\ UNCHANGED <<sweep_vars, tree_vars, args, project, prev_report, dependencies, dep_order,
                   dependency_chains, source_fs, unreadable, target_fs, copied_files,
                   failed_copies, missing_dependencies, running, futures,
                   missing_analysis, exit_status, calls, returned, written>>

\* the sequential loop (of copy_all or of the retry) has no key left
EndLoop ==
    /\ pc \in {"seq", "retry"}
    /\ todo = <<>> /\ DOMAIN running = {}
    /\ pc' = "report"
    /\ UNCHANGED <<sweep_vars, tree_vars, args, project, prev_report, dependencies, dep_order,
                   dependency_chains, source_fs, unreadable, target_fs, copied_files,
                   failed_copies, missing_dependencies, todo, running, futures,
                   success_count, missing_analysis, exit_status, calls, returned,
                   written>>

\* PoolJoin that counts every finished task as a success
PoolJoin_CountsAll ==
    /\ pc = "pool"
    /\ todo = <<>> /\ DOMAIN running = {}
    /\ success_count' = Cardinality(DOMAIN futures)
    /\ pc' = "report"
    /\ UNCHANGED <<sweep_vars, tree_vars, args, project, prev_report, dependencies, dep_order,
                   dependency_chains, source_fs, unreadable, target_fs, copied_files,
                   failed_copies, missing_dependencies, todo, running, futures,
                   missing_analysis, exit_status, calls, returned, written>>

\* every future is done: the as_completed loop has counted the True results and
\* the executor has shut down (lines 514-518)
PoolJoin ==
    /\ pc = "pool"
    /\ todo = <<>> /\ DOMAIN running = {}
    /\ success_count' = Cardinality({k \in DOMAIN futures : futures[k]})
    /\ pc' = "report"
    /\ UNCHANGED <<sweep_vars, tree_vars, args, project, prev_report, dependencies, dep_order,
                   dependency_chains, source_fs, unreadable, target_fs, copied_files,
                   failed_copies, missing_dependencies, todo, running, futures,
                   missing_analysis, exit_status, calls, returned, written>>

\* _create_report_data (lines 825-856): the statistics and the status of every
\* record of the table
create_report_data(deps, chains, missing, failed, ma) ==
    [statistics |->
        [total_dependencies    |-> Cardinality(DOMAIN deps),
         active_dependencies   |-> Cardinality({k \in DOMAIN deps : ~deps[k].excluded}),
         copied_dependencies   |-> Cardinality(DOMAIN deps) - Len(missing),
         missing_dependencies  |-> Len(missing),
         excluded_dependencies |-> Cardinality({k \in DOMAIN deps : deps[k].excluded})],
     missing_analysis |-> ma,
     all_dependencies |->
        [k \in DOMAIN deps |->
            [info   |-> deps[k],
             chains |-> ChainsGet(chains, k),
             status |-> IF k \in Range(missing) THEN "missing" ELSE "copied"]],
     failed_copies_detail |-> failed]

\* generate_enhanced_report (lines 688-738).  _generate_recommendations calls
\* missing_analysis.get, which raises AttributeError on None; main catches it
\* and returns 1.  The script and the report are opened for writing inside
\* target_repo, which raises when that directory does not exist.
Report ==
    /\ pc = "report"
    /\ LET ma == analyze_missing_dependencies(dependencies, missing_dependencies)
       IN  /\ missing_analysis' = ma
           /\ IF ma.none \/ <<>> \notin target_fs.dirs
              THEN pc' = "done" /\ exit_status' = <<1>> /\ UNCHANGED target_fs
              ELSE /\ target_fs' =
                        WriteFile(IF ma.essential # <<>> \/ ma.plugin # <<>>
                                  THEN WriteFile(target_fs, ScriptFile)
                                  ELSE target_fs, ReportFile)
                   /\ pc' = "summary"
                   /\ UNCHANGED exit_status
    /\ UNCHANGED <<sweep_vars, tree_vars, args, project, prev_report, dependencies, dep_order,
                   dependency_chains, source_fs, unreadable, copied_files,
                   failed_copies, missing_dependencies, todo, running, futures,
                   success_count, calls, returned, written>>

\* create_offline_settings_xml and the final status (lines 1026-1098)
Summary ==
    /\ pc = "summary"
    /\ target_fs' = (IF args.analyze_only THEN target_fs
                     ELSE WriteFile(target_fs, SettingsFile))
    /\ exit_status' = (IF missing_analysis.essential = <<>>
                          /\ missing_analysis.plugin = <<>> THEN <<0>> ELSE <<1>>)
    /\ pc' = "done"
    /\ UNCHANGED <<sweep_vars, tree_vars, args, project, prev_report, dependencies, dep_order,
                   dependency_chains, source_fs, unreadable, copied_files,
                   failed_copies, missing_dependencies, todo, running, futures,
                   success_count, missing_analysis, calls, returned, written>>

----------------------------------------------------------------------------
(* Specifications *)

\* no cache cleaner has been constructed
NoCleaner ==
    /\ cleaner = None /\ repo_fs = EmptyFS /\ locked = {}
    /\ cleaned_files = EmptyBag /\ cleaned_dirs = <<>> /\ errors = {}
    /\ files_to_clean = <<>> /\ cleaning = {} /\ all_dirs = <<>> /\ swept = {}

\* the tracer right after construction (lines 30-39)
Constructed ==
    /\ dependencies = EmptyTable /\ dep_order = <<>> /\ dependency_chains = <<>>
    /\ copied_files = EmptyBag /\ failed_copies = <<>> /\ missing_dependencies = <<>>
    /\ todo = <<>> /\ running = <<>> /\ futures = <<>> /\ success_count = 0
    /\ missing_analysis = None /\ exit_status = NoExit
    /\ calls = [k \in AllKeys |-> 0] /\ returned = EmptyBag /\ written = {}
    /\ stdout = <<>> /\ current_chain = <<>> /\ stack = <<>>
    /\ seen = <<>> /\ invocations = <<>> /\ parsed_by = {}

Args(analyze_only, copy_missing_only, threads) ==
    [analyze_only |-> analyze_only, copy_missing_only |-> copy_missing_only,
     threads |-> threads]

JarOf(st) == Append(PathParts(ArtifactPath(st.groupId, st.artifactId, st.version)),
                    JarName(st.artifactId, st.version))
MetaOf(st) == Append(PathParts(Replace(st.groupId, ".", "/") \o <<"/">> \o st.artifactId),
                     MetadataName)

\* a full mirroring run of a small project
InitFull ==
    /\ pc = "start" /\ Constructed /\ NoCleaner
    /\ args = Args(FALSE, FALSE, 1)
    /\ project \in SmallProjects
    /\ prev_report = NoReport
    /\ \E stored \in SUBSET {SA, SB, SC} : source_fs = RepoOf(stored \cup {SL})
    /\ unreadable \in {{}, {JarOf(SA)}, {MetaOf(SA)}}
    /\ target_fs = EmptyFS

\* --analyze-only
InitAnalyzeOnly ==
    /\ pc = "start" /\ Constructed /\ NoCleaner
    /\ args = Args(TRUE, FALSE, 1)
    /\ project \in SmallProjects
    /\ prev_report = NoReport
    /\ source_fs = RepoOf({SA, SB, SC, SL})
    /\ unreadable = {}
    /\ target_fs \in {EmptyFS, Mkdir(EmptyFS, <<>>)}

\* --copy-missing-only, with or without the report of an earlier run in target_repo
InitRetry ==
    /\ pc = "start" /\ Constructed /\ NoCleaner
    /\ args = Args(FALSE, TRUE, 1)
    /\ project \in SmallProjects
    /\ prev_report \in {NoReport}
         \cup {[none |-> FALSE, keys |-> q] : q \in SeqsUpTo({KA, KB, KC, KZ}, MaxRetry)}
    /\ source_fs \in {RepoOf({SL}), RepoOf({SA, SB, SC, SL})}
    /\ unreadable = {}
    /\ target_fs = (IF prev_report.none THEN EmptyFS
                    ELSE WriteFile(Mkdir(EmptyFS, <<>>), ReportFile))

\* a full mirroring run of a project large enough for the worker pool
InitLarge ==
    /\ pc = "start" /\ Constructed /\ NoCleaner
    /\ \E n \in 1..MaxWorkers : args = Args(FALSE, FALSE, n)
    /\ \E a \in {i \in AInfos : ~i.optional /\ ~i.excluded} :
         project = Project({a} \cup {i \in BInfos : i.scope = "compile" /\ ~i.excluded}
                               \cup {FillInfo(i) : i \in 1..NumFill})
    /\ prev_report = NoReport
    /\ \E gone \in SUBSET {SF(1), SF(2)} :
         source_fs = RepoOf(({SA, SB} \cup {SF(i) : i \in 1..NumFill}) \ gone)
    /\ unreadable \in {{}, {JarOf(SF(3))}}
    /\ target_fs = EmptyFS

Init == InitFull \/ InitAnalyzeOnly \/ InitRetry \/ InitLarge

Next ==
    \/ Analyze
    \/ StartMirror
    \/ StartRetry
    \/ EndLoop
    \/ PoolJoin
    \/ Report
    \/ Summary
    \/ \E k \in AllKeys : CopyBegin(k)
    \/ \E k \in AllKeys : CopyMissing(k)
    \/ \E k \in AllKeys : CopyFile(k)
    \/ \E k \in AllKeys : CopyReturn(k)
    \/ \E k \in AllKeys : CopyExcept(k)

Spec == Init /\ [][Next]_vars

(* The classifier alone, on any table over two keys and any missing list *)

ClassifyInfos(group_id, artifact_id) ==
    {DepInfo(group_id, artifact_id, V10, p, s, o, e) :
        p \in {"jar", "maven-plugin"}, s \in {"compile", "provided", "test"},
        o \in BOOLEAN, e \in BOOLEAN}

InitClassify ==
    /\ pc = "classify" /\ Constructed /\ NoCleaner
    /\ args = Args(TRUE, FALSE, 1)
    /\ \E a \in ClassifyInfos(G_foo, <<"bar">>), b \in ClassifyInfos(G_foobar, <<"baz">>) :
         project = Project({a, b})
    /\ prev_report = NoReport
    /\ source_fs = EmptyFS /\ unreadable = {} /\ target_fs = EmptyFS

\* the table and the missing list are set, then analyze_missing_dependencies runs
Classify ==
    /\ pc = "classify"
    /\ \E missing \in SeqsUpTo(DOMAIN project.deps, MaxMissing) :
         /\ dependencies' = project.deps
         /\ dep_order' = project.order
         /\ missing_dependencies' = missing
         /\ missing_analysis' = analyze_missing_dependencies(project.deps, missing)
    /\ pc' = "classified"
    /\ UNCHANGED <<sweep_vars, tree_vars, args, project, prev_report, dependency_chains, source_fs,
                   unreadable, target_fs, copied_files, failed_copies, todo, running,
                   futures, success_count, exit_status, calls, returned, written>>

SpecClassify == InitClassify /\ [][Classify]_vars

----------------------------------------------------------------------------
(* Tree text.  A line is a sequence of tokens: one token per structural    *)
(* character, ":" and " ", and one token per run of other characters.      *)

Min(S) == CHOOSE x \in S : \A y \in S : x <= y

\* the characters counted as indentation (lines 134, 386)
StructuralChars == {" ", "|", "+", "\\", "-"}

\* tokens outside the character class [a-zA-Z0-9._-] of the patterns
NonWord == {":", " ", "|", "+", "\\", "(", ")", "[INFO]",
            "omitted for conflict", "omitted for duplicate", " with "}

IsWord(t) == t \notin NonWord

DigitTokens == {"0", "1", "2", "3", "4", "5", "6", "7", "8", "9"}

\* the loop counting the leading structural characters (lines 132-137, 384-389)
IndentLevel(line) ==
    LET stops == {i \in 1..Len(line) : line[i] \notin StructuralChars}
    IN  IF stops = {} THEN Len(line) ELSE Min(stops) - 1

\* str.strip()
Strip(line) ==
    LET ink == {i \in 1..Len(line) : line[i] # " "}
    IN  IF ink = {} THEN <<>>
        ELSE SubSeq(line, Min(ink), CHOOSE j \in ink : \A i \in ink : i <= j)

\* the end of the run of class characters that holds position i
RunEnd(line, i) ==
    CHOOSE j \in i..Len(line) :
        /\ \A m \in i..j : IsWord(line[m])
        /\ j = Len(line) \/ ~IsWord(line[j + 1])

\* the ends of up to n colon-separated segments starting at position i
RECURSIVE SegEnds(_, _, _)
SegEnds(line, i, n) ==
    IF n = 0 \/ i > Len(line) THEN <<>>
    ELSE IF ~IsWord(line[i]) THEN <<>>
    ELSE LET e == RunEnd(line, i)
         IN  <<e>> \o (IF e < Len(line) /\ line[e + 1] = ":"
                       THEN SegEnds(line, e + 2, n - 1) ELSE <<>>)

\* re.search of seg:seg:seg:seg(:seg)? (lines 140, 206): the groups of the
\* leftmost match, or <<>>
SearchDependency(line) ==
    LET starts == {i \in 1..Len(line) : Len(SegEnds(line, i, 5)) >= 4}
    IN  IF starts = {} THEN <<>>
        ELSE LET i    == Min(starts)
                 ends == SegEnds(line, i, 5)
             IN  [j \in 1..Len(ends) |->
                    SubSeq(line, IF j = 1 THEN i ELSE ends[j - 1] + 2, ends[j])]

\* re.search of seg:seg: (line 392): the two groups of the leftmost match, or <<>>
SearchKey(line) ==
    LET starts == {i \in 1..Len(line) :
                     LET ends == SegEnds(line, i, 2)
                     IN  /\ Len(ends) = 2
                         /\ ends[2] < Len(line) /\ line[ends[2] + 1] = ":"}
    IN  IF starts = {} THEN <<>>
        ELSE LET i    == Min(starts)
                 ends == SegEnds(line, i, 2)
             IN  <<SubSeq(line, i, ends[1]), SubSeq(line, ends[1] + 2, ends[2])>>

\* VersionLike that finds no version-like token
VersionLike_Never(seg) == FALSE

\* re.match(r'^\d+\.\d+', packaging) (lines 150, 218)
VersionLike(seg) ==
    LET others == {i \in 1..Len(seg) : seg[i] \notin DigitTokens}
    IN  /\ others # {}
        /\ LET d == Min(others)
           IN  d > 1 /\ seg[d] = "." /\ d < Len(seg) /\ seg[d + 1] \in DigitTokens

\* a string of one token is kept as that token (packaging, scope)
Str(seg) == IF Len(seg) = 1 THEN seg[1] ELSE seg

Contains(line, t) == \E i \in 1..Len(line) : line[i] = t

\* the test that skips a line of the verbose text (line 127)
VerboseSkips(line) ==
    LET line_clean == Strip(line)
    IN  \/ line_clean = <<>>
        \/ /\ line_clean[1] = "[INFO]"
           /\ ~(\/ Contains(line_clean, "|")
                \/ \E i \in 1..(Len(line_clean) - 1) :
                     line_clean[i] \in {"+", "\\"} /\ line_clean[i + 1] = "-")

\* 'optional' in line_clean.lower() (line 170)
OptionalMarked(line) == Contains(line, "optional") \/ Contains(line, "OPTIONAL")

\* the two substring tests of line 171
OmittedMarked(line) ==
    Contains(line, "omitted for conflict") \/ Contains(line, "omitted for duplicate")

\* re.search(r'omitted for conflict with ([0-9.]+)', line_clean) (line 176):
\* group 1, or <<>>
ConflictVersion(line) ==
    LET at == {i \in 1..(Len(line) - 2) :
                 /\ line[i] = "omitted for conflict" /\ line[i + 1] = " with "
                 /\ line[i + 2] \in DigitTokens \cup {"."}}
    IN  IF at = {} THEN <<>>
        ELSE LET b == Min(at) + 2
                 e == CHOOSE j \in b..Len(line) :
                        /\ \A m \in b..j : line[m] \in DigitTokens \cup {"."}
                        /\ j = Len(line) \/ line[j + 1] \notin DigitTokens \cup {"."}
             IN  SubSeq(line, b, e)

IndentWidth == 3     \* chain_level = indent_level // 3

\* ChainLevel that takes a level to be four characters wide
ChainLevel_Width4(indent_level) == indent_level \div 4

\* chain_level = indent_level // 3 (line 157)
ChainLevel(indent_level) == indent_level \div IndentWidth

\* level = max(0, indent // 3 - 1) (line 399)
RebuildLevel(indent) ==
    IF indent \div IndentWidth >= 1 THEN indent \div IndentWidth - 1 ELSE 0

\* Truncate that keeps one entry more than the level
Truncate_OffByOne(chain, n) == SubSeq(chain, 1, IF n + 1 < Len(chain) THEN n + 1 ELSE Len(chain))

\* Truncate that never drops the root entry
Truncate_KeepRoot(chain, n) ==
    SubSeq(chain, 1, IF n = 0 THEN (IF Len(chain) > 0 THEN 1 ELSE 0)
                     ELSE IF n < Len(chain) THEN n ELSE Len(chain))

\* the slice chain[:n] (lines 158, 400)
Truncate(chain, n) == SubSeq(chain, 1, IF n < Len(chain) THEN n ELSE Len(chain))

\* RecordsChain that records one-element chains too
RecordsChain_Always(chain) == Len(chain) >= 1

\* if len(current_chain) > 1 (line 192)
RecordsChain(chain) == Len(chain) > 1

\* RebuildChain that holds the ancestors only
RebuildChain_Ancestors(ancestors, dep_key) == ancestors

\* current_chain = stack + [dep_key] (line 403)
RebuildChain(ancestors, dep_key) == ancestors \o <<dep_key>>

\* HasChains that never finds a chain
HasChains_Never(chains) == FALSE

\* any(len(chains) > 0 for chains in self.dependency_chains.values()) (line 367)
HasChains(chains) == \E k \in DOMAIN chains : Len(chains[k]) > 0

\* dep_info of the verbose parser (lines 162-179)
VerboseInfo(group_id, artifact_id, version, packaging, scope, chain, level, line_clean) ==
    [chain |-> chain, level |-> level,
     conflict_version |-> IF ConflictVersion(line_clean) = <<>> THEN None
                          ELSE ConflictVersion(line_clean)]
    @@ DepInfo(group_id, artifact_id, version, packaging, scope,
               OptionalMarked(line_clean),
               OmittedMarked(line_clean) \/ ConflictVersion(line_clean) # <<>>)

\* the record of the plain parser (lines 224-234)
SimpleInfo(group_id, artifact_id, version, packaging, scope) ==
    [chain |-> <<DepKey(group_id, artifact_id)>>, level |-> 0]
    @@ DepInfo(group_id, artifact_id, version, packaging, scope, FALSE, FALSE)

\* the record of a plugin of the effective POM (lines 284-294)
PluginInfo(group_id, artifact_id, version) ==
    [chain |-> <<DepKey(group_id, artifact_id)>>, level |-> 0]
    @@ DepInfo(group_id, artifact_id, IF version = NoVersion THEN LATEST ELSE version,
               "maven-plugin", "plugin", FALSE, FALSE)

\* the record of a dependency element of a POM (lines 322-333)
ExtractedInfo(group_id, artifact_id, version, scope, optional, dep_type) ==
    [chain |-> <<DepKey(group_id, artifact_id)>>, level |-> 0, type |-> dep_type]
    @@ DepInfo(group_id, artifact_id, version, "jar", scope, optional, FALSE)

\* self.dependencies[dep_key] = dep_info
Store(deps, info) == (KeyOf(info) :> info) @@ deps

\* StoreIfAbsent that stores over a record the table holds
StoreIfAbsent_Overwrites(deps, info) == Store(deps, info)

\* if dep_key not in self.dependencies: self.dependencies[dep_key] = ...
StoreIfAbsent(deps, info) == IF KeyOf(info) \in DOMAIN deps THEN deps ELSE Store(deps, info)

\* insertion order of the table after a record for key k was stored
Ordered(order, k) == IF k \in Range(order) THEN order ELSE Append(order, k)

(* The bounded universe of tree texts *)

MaxLines        == 3    \* longest text handed to the verbose or the plain parser
MaxRebuildLines == 2    \* longest text handed to the rebuild pass

Widths == {2, IndentWidth}     \* characters per level of a printed tree
Depths == 0..2

TreeNodes == {<<G_foo, <<"bar">>>>, <<G_foobar, <<"baz">>>>}

\* the indentation the tool prints before a node at depth d, w characters a level
Lead(d, w) ==
    [i \in 1..(d * w) |->
        IF (i - 1) % w = 0 THEN (IF i > (d - 1) * w THEN "+" ELSE "|")
        ELSE IF i = d * w THEN " "
        ELSE IF i > (d - 1) * w THEN "-" ELSE " "]

\* the line of node n at depth d, with the position it was printed for
TreeLine(d, w, n) ==
    [text  |-> Lead(d, w) \o n[1] \o <<":">> \o n[2] \o <<":", "jar", ":">> \o V10
                 \o <<":", "compile">>,
     node  |-> <<d, DepKey(n[1], n[2])>>,
     width |-> w]

\* a line of the build log that names no artifact
InfoLine == [text |-> <<"[INFO]", " ", "BUILD">>, node |-> <<>>, width |-> 0]

LinesOf(w) == {TreeLine(d, w, n) : d \in Depths, n \in TreeNodes} \cup {InfoLine}

VerboseTexts == UNION {SeqsUpTo(LinesOf(w), MaxLines) : w \in Widths}
PlainTexts   == SeqsUpTo(LinesOf(IndentWidth), MaxLines)
RebuildTexts == SeqsUpTo(LinesOf(IndentWidth), MaxRebuildLines)

\* dependency and plugin elements a POM can hold: [groupId, artifactId, version]
ManagedElements == {[groupId |-> G_foo, artifactId |-> <<"bar">>, version |-> <<"2", ".", "0">>]}
PluginElements  == {[groupId |-> G_foo, artifactId |-> <<"plug">>, version |-> NoVersion]}
DirectElements  == {[groupId |-> G_foobar, artifactId |-> <<"baz">>, version |-> NoVersion]}

\* the entry of seen for an element a POM pass has read
ElementLine(e, pass) ==
    [text |-> e.groupId \o <<":">> \o e.artifactId, node |-> <<>>, width |-> 0,
     pass |-> pass]

\* the elements of a set of at most one element, in document order
ElementsOf(S) == [i \in 1..Cardinality(S) |-> CHOOSE e \in S : TRUE]

(* Tree lines as the tool prints them: identity forms and omission markers *)

MaxMarkedLines == 2    \* longest text of marked lines handed to a tree parser

\* what the tool prints before a node: nothing, or spaces and a connector
MarkedLeads == {<<>>, <<" ", " ", " ", "\\", "-", " ">>}

\* what follows group:artifact: packaging:version:scope, packaging:version,
\* version:scope
IdentityForms == {<<":", "jar", ":">> \o V10 \o <<":", "test">>,
                  <<":", "jar", ":">> \o V10,
                  <<":">> \o V10 \o <<":", "test">>}

\* the verbose tool's notes on a node it dropped
Markers == {<<>>,
            <<" ", "-", " ", "omitted for duplicate">>,
            <<" ", "-", " ", "omitted for conflict", " with ", "2", ".", "0">>}

\* the line of foo:bar behind lead, a dropped node in parentheses
MarkedLine(lead, form, marker) ==
    [text  |-> lead \o (IF marker = <<>> THEN <<>> ELSE <<"(">>)
                 \o G_foo \o <<":", "bar">> \o form \o marker
                 \o (IF marker = <<>> THEN <<>> ELSE <<")">>),
     node  |-> <<Len(lead) \div IndentWidth, DepKey(G_foo, <<"bar">>)>>,
     width |-> IndentWidth]

MarkedLines == {MarkedLine(lead, form, marker) :
                  lead \in MarkedLeads, form \in IdentityForms, marker \in Markers}

MarkedTexts == SeqsUpTo(MarkedLines, MaxMarkedLines) \ {<<>>}

----------------------------------------------------------------------------
(* analyze_dependencies_with_tracing, one tool invocation or one line at a time *)

\* what the tree passes leave alone
mirror_vars == <<args, project, prev_report, source_fs, unreadable, target_fs,
                 copied_files, failed_copies, missing_dependencies, todo, running,
                 futures, success_count, missing_analysis, calls, returned, written>>

Invoked(cmd, outcome) == Append(invocations, [cmd |-> cmd, outcome |-> outcome])

\* the pass starts to read the text
Reads(text) == stdout' = text /\ seen' = <<>>

\* the pass has read the first line of stdout
ReadLine == stdout' = Tail(stdout) /\ seen' = Append(seen, Head(stdout))

\* _analyze_dependency_tree_verbose up to the parser (lines 98-106): the
\* verbose invocation succeeds, exits with a non-zero status (the one failure
\* the handler catches), or fails with TimeoutExpired or an OSError, which
\* leaves analyze_dependencies_with_tracing (line 90) and ends main with 1
analyze_dependency_tree_verbose ==
    /\ pc = "tree"
    /\ \E outcome \in {"ok", "nonzero", "timeout", "oserror"} :
        /\ invocations' = Invoked("verbose", outcome)
        /\ CASE outcome = "ok" ->
                  /\ \E text \in VerboseTexts : Reads(text)
                  /\ pc' = "verbose" /\ UNCHANGED exit_status
             [] outcome = "nonzero" ->
                  /\ pc' = "plain" /\ UNCHANGED <<stdout, seen, exit_status>>
             [] OTHER ->
                  /\ pc' = "done" /\ exit_status' = <<1>> /\ UNCHANGED <<stdout, seen>>
    /\ current_chain' = <<>>
    /\ UNCHANGED <<dependencies, dep_order, dependency_chains, stack, parsed_by,
                   mirror_vars, sweep_vars>>

\* one iteration of the loop of _parse_verbose_dependency_tree (lines 123-194)
parse_verbose_dependency_tree ==
    /\ pc = "verbose" /\ stdout # <<>>
    /\ ReadLine
    /\ LET line       == Head(stdout).text
           line_clean == Strip(line)
           dep_match  == SearchDependency(line_clean)
       IN  IF VerboseSkips(line) \/ dep_match = <<>>
           THEN UNCHANGED <<current_chain, dependencies, dep_order, dependency_chains,
                            parsed_by>>
           ELSE LET group_id    == dep_match[1]
                    artifact_id == dep_match[2]
                    shifted     == VersionLike(dep_match[3])
                    packaging   == IF shifted THEN "jar" ELSE Str(dep_match[3])
                    version     == IF shifted THEN dep_match[3] ELSE dep_match[4]
                    scope       == IF Len(dep_match) = 5 THEN Str(dep_match[5])
                                   ELSE "compile"
                    dep_key     == DepKey(group_id, artifact_id)
                    chain_level == ChainLevel(IndentLevel(line))
                    chain       == Append(Truncate(current_chain, chain_level), dep_key)
                IN  /\ current_chain' = chain
                    /\ dependencies' =
                         Store(dependencies,
                               VerboseInfo(group_id, artifact_id, version, packaging,
                                           scope, chain, chain_level, line_clean))
                    /\ dep_order' = Ordered(dep_order, dep_key)
                    /\ dependency_chains' =
                         (IF RecordsChain(chain)
                          THEN (dep_key :> Append(ChainsGet(dependency_chains, dep_key),
                                                  chain)) @@ dependency_chains
                          ELSE dependency_chains)
                    /\ parsed_by' = parsed_by \cup {<<dep_key, "verbose">>}
    /\ UNCHANGED <<pc, stack, invocations, exit_status, mirror_vars, sweep_vars>>

\* ParsedVerbose that goes on to the plain invocation
ParsedVerbose_FallsThrough ==
    /\ pc = "verbose" /\ stdout = <<>>
    /\ pc' = "plain" /\ seen' = <<>> /\ current_chain' = <<>>
    /\ UNCHANGED <<stdout, stack, invocations, parsed_by, dependencies,
                   dep_order, dependency_chains, exit_status, mirror_vars, sweep_vars>>

\* the verbose parser returns, its current_chain is gone; no handler runs
\* (lines 103-105)
ParsedVerbose ==
    /\ pc = "verbose" /\ stdout = <<>>
    /\ pc' = "pom" /\ seen' = <<>> /\ current_chain' = <<>>
    /\ UNCHANGED <<stdout, stack, invocations, parsed_by, dependencies,
                   dep_order, dependency_chains, exit_status, mirror_vars, sweep_vars>>

\* the handler of CalledProcessError (lines 105-113): the plain invocation;
\* any failure of it is logged and the pass returns
RunPlain ==
    /\ pc = "plain"
    /\ \E outcome \in {"ok", "failed"} :
        /\ invocations' = Invoked("plain", outcome)
        /\ IF outcome = "ok"
           THEN (\E text \in PlainTexts : Reads(text)) /\ pc' = "simple"
           ELSE pc' = "pom" /\ UNCHANGED <<stdout, seen>>
    /\ UNCHANGED <<current_chain, stack, parsed_by, dependencies, dep_order,
                   dependency_chains, exit_status, mirror_vars, sweep_vars>>

\* one iteration of the loop of _parse_simple_dependency_tree (lines 202-235)
parse_simple_dependency_tree ==
    /\ pc = "simple" /\ stdout # <<>>
    /\ ReadLine
    /\ LET line  == Strip(Head(stdout).text)
           match == SearchDependency(line)
       IN  IF match = <<>>
           THEN UNCHANGED <<dependencies, dep_order, parsed_by>>
           ELSE LET group_id    == match[1]
                    artifact_id == match[2]
                    shifted     == VersionLike(match[3])
                    packaging   == IF shifted THEN "jar" ELSE Str(match[3])
                    version     == IF shifted THEN match[3] ELSE match[4]
                    scope       == IF Len(match) = 5 THEN Str(match[5]) ELSE "compile"
                    dep_key     == DepKey(group_id, artifact_id)
                IN  /\ dependencies' =
                         Store(dependencies,
                               SimpleInfo(group_id, artifact_id, version, packaging, scope))
                    /\ dep_order' = Ordered(dep_order, dep_key)
                    /\ parsed_by' = parsed_by \cup {<<dep_key, "simple">>}
    /\ UNCHANGED <<pc, current_chain, stack, invocations, dependency_chains,
                   exit_status, mirror_vars, sweep_vars>>

\* the plain parser returns
ParsedSimple ==
    /\ pc = "simple" /\ stdout = <<>>
    /\ pc' = "pom" /\ seen' = <<>>
    /\ UNCHANGED <<stdout, current_chain, stack, invocations, parsed_by, dependencies,
                   dep_order, dependency_chains, exit_status, mirror_vars, sweep_vars>>

RECURSIVE StoreAllAbsent(_, _, _)
StoreAllAbsent(deps, order, infos) ==
    IF infos = <<>> THEN [deps |-> deps, order |-> order]
    ELSE StoreAllAbsent(StoreIfAbsent(deps, Head(infos)),
                        Ordered(order, KeyOf(Head(infos))), Tail(infos))

\* _analyze_effective_pom (lines 237-297): managed dependencies, then plugins,
\* each stored unless the key has a record; a failure stores nothing
analyze_effective_pom ==
    /\ pc = "pom"
    /\ \E managed \in OneOrNone(ManagedElements), plugins \in OneOrNone(PluginElements) :
        LET infos == [e \in managed |->
                        ExtractedInfo(e.groupId, e.artifactId, e.version, "compile",
                                      FALSE, "managed")]
            plugs == [e \in plugins |-> PluginInfo(e.groupId, e.artifactId, e.version)]
            all   == [i \in 1..Cardinality(managed) |-> infos[CHOOSE e \in managed : TRUE]]
                     \o [i \in 1..Cardinality(plugins) |-> plugs[CHOOSE e \in plugins : TRUE]]
            after == StoreAllAbsent(dependencies, dep_order, all)
        IN  /\ dependencies' = after.deps /\ dep_order' = after.order
            /\ seen' = [i \in 1..Cardinality(managed) |->
                          ElementLine(ElementsOf(managed)[i], "managed")]
                       \o [i \in 1..Cardinality(plugins) |->
                             ElementLine(ElementsOf(plugins)[i], "plugin")]
    /\ pc' = "direct"
    /\ UNCHANGED <<stdout, current_chain, stack, invocations, parsed_by,
                   dependency_chains, exit_status, mirror_vars, sweep_vars>>

\* _analyze_direct_dependencies (lines 338-359)
analyze_direct_dependencies ==
    /\ pc = "direct"
    /\ \E direct \in OneOrNone(DirectElements) :
        LET all   == [i \in 1..Cardinality(direct) |->
                        LET e == CHOOSE x \in direct : TRUE
                        IN  ExtractedInfo(e.groupId, e.artifactId, e.version, "compile",
                                          FALSE, "direct")]
            after == StoreAllAbsent(dependencies, dep_order, all)
        IN  /\ dependencies' = after.deps /\ dep_order' = after.order
            /\ seen' = [i \in 1..Cardinality(direct) |->
                          ElementLine(ElementsOf(direct)[i], "direct")]
    /\ pc' = "chains"
    /\ UNCHANGED <<stdout, current_chain, stack, invocations, parsed_by,
                   dependency_chains, exit_status, mirror_vars, sweep_vars>>

\* _build_dependency_chains and the invocation of _rebuild_chains_from_tree
\* (lines 362-377); a failure of the invocation is logged (lines 412-413)
build_dependency_chains ==
    /\ pc = "chains"
    /\ IF HasChains(dependency_chains)
       THEN pc' = "analyzed" /\ UNCHANGED <<stdout, seen, invocations>>
       ELSE \E outcome \in {"ok", "failed"} :
              /\ invocations' = Invoked("rebuild", outcome)
              /\ IF outcome = "ok"
                 THEN (\E text \in RebuildTexts : Reads(text)) /\ pc' = "rebuild"
                 ELSE pc' = "analyzed" /\ UNCHANGED <<stdout, seen>>
    /\ stack' = <<>>
    /\ UNCHANGED <<current_chain, parsed_by, dependencies, dep_order,
                   dependency_chains, exit_status, mirror_vars, sweep_vars>>

\* one iteration of the loop of _rebuild_chains_from_tree (lines 379-410)
rebuild_chains_from_tree ==
    /\ pc = "rebuild" /\ stdout # <<>>
    /\ ReadLine
    /\ LET line      == Head(stdout).text
           dep_match == SearchKey(line)
       IN  IF Strip(line) = <<>> \/ dep_match = <<>>
           THEN UNCHANGED <<stack, dependency_chains>>
           ELSE LET dep_key == DepKey(dep_match[1], dep_match[2])
                    level   == RebuildLevel(IndentLevel(line))
                    chain   == RebuildChain(Truncate(stack, level), dep_key)
                IN  /\ stack' = Append(Truncate(stack, level), dep_key)
                    /\ dependency_chains' =
                         (IF dep_key \in DOMAIN dependencies
                          THEN (dep_key :> Append(ChainsGet(dependency_chains, dep_key),
                                                  chain)) @@ dependency_chains
                          ELSE dependency_chains)
    /\ UNCHANGED <<pc, current_chain, invocations, parsed_by, dependencies, dep_order,
                   exit_status, mirror_vars, sweep_vars>>

\* the rebuild pass has read its text and returns, its stack is gone
Rebuilt ==
    /\ pc = "rebuild" /\ stdout = <<>>
    /\ pc' = "analyzed" /\ seen' = <<>> /\ stack' = <<>>
    /\ UNCHANGED <<stdout, current_chain, invocations, parsed_by, dependencies,
                   dep_order, dependency_chains, exit_status, mirror_vars, sweep_vars>>

\* analyze_dependencies_with_tracing on a freshly constructed tracer
InitAnalysis ==
    /\ pc = "tree" /\ Constructed /\ NoCleaner
    /\ args = Args(TRUE, FALSE, 1)
    /\ project = Project({})
    /\ prev_report = NoReport
    /\ source_fs = EmptyFS /\ unreadable = {} /\ target_fs = EmptyFS

NextAnalysis ==
    \/ analyze_dependency_tree_verbose
    \/ parse_verbose_dependency_tree
    \/ ParsedVerbose
    \/ RunPlain
    \/ parse_simple_dependency_tree
    \/ ParsedSimple
    \/ analyze_effective_pom
    \/ analyze_direct_dependencies
    \/ build_dependency_chains
    \/ rebuild_chains_from_tree
    \/ Rebuilt

SpecAnalysis == InitAnalysis /\ [][NextAnalysis]_vars

\* the passes that fill the table, from the moment a tree invocation has
\* returned a text of marked lines: the verbose one (line 103), or the plain
\* one after the verbose one exited with a non-zero status (line 110)
InitLines ==
    /\ pc \in {"verbose", "simple"}
    /\ invocations = (IF pc = "verbose"
                      THEN <<[cmd |-> "verbose", outcome |-> "ok"]>>
                      ELSE <<[cmd |-> "verbose", outcome |-> "nonzero"],
                             [cmd |-> "plain", outcome |-> "ok"]>>)
    /\ stdout \in MarkedTexts
    /\ seen = <<>> /\ current_chain = <<>> /\ stack = <<>> /\ parsed_by = {}
    /\ dependencies = EmptyTable /\ dep_order = <<>> /\ dependency_chains = <<>>
    /\ copied_files = EmptyBag /\ failed_copies = <<>> /\ missing_dependencies = <<>>
    /\ todo = <<>> /\ running = <<>> /\ futures = <<>> /\ success_count = 0
    /\ missing_analysis = None /\ exit_status = NoExit
    /\ calls = [k \in AllKeys |-> 0] /\ returned = EmptyBag /\ written = {}
    /\ NoCleaner
    /\ args = Args(TRUE, FALSE, 1)
    /\ project = Project({})
    /\ prev_report = NoReport
    /\ source_fs = EmptyFS /\ unreadable = {} /\ target_fs = EmptyFS

NextLines ==
    \/ parse_verbose_dependency_tree
    \/ ParsedVerbose
    \/ parse_simple_dependency_tree
    \/ ParsedSimple
    \/ analyze_effective_pom
    \/ analyze_direct_dependencies

SpecLines == InitLines /\ [][NextLines]_vars

----------------------------------------------------------------------------
(* maven_cache_cleaner.py: the operations of a MavenCacheCleaner, called in
   any order.  self.stats and the log are output only and are left out. *)

\* every variable of the tracer but pc
tracer_vars == <<args, project, prev_report, dependencies, dep_order,
                 dependency_chains, source_fs, unreadable, target_fs, copied_files,
                 failed_copies, missing_dependencies, todo, running, futures,
                 success_count, missing_analysis, exit_status, calls, returned,
                 written, tree_vars>>

SweepPoolThreshold == 50   \* total_files < 50 cleans in the calling thread

NumStale == 50             \* stale files of the large repository

\* cache_dirs = ['.cache', '.meta'] (lines 38, 100, 172)
CacheDirNames == <<(<<".cache">>), (<<".meta">>)>>

\* any(cache_dir in path.parts for cache_dir in ['.cache', '.meta'])
InCacheDir(p) == \E i \in 1..Len(p) : p[i] \in Range(CacheDirNames)

\* the paths of S below directory d (rglob('*'))
Below(S, d) == {p \in S : Len(p) > Len(d) /\ SubSeq(p, 1, Len(d)) = d}

\* shutil.rmtree(d)
Rmtree(fs, d) ==
    [files |-> fs.files \ Below(fs.files, d),
     dirs  |-> (fs.dirs \ Below(fs.dirs, d)) \ {d}]

\* not any(dir_path.iterdir())
IsEmptyDir(fs, d) ==
    \A p \in fs.files \cup fs.dirs : ~(Len(p) = Len(d) + 1 /\ Parent(p) = d)

\* the tests of lines 112-119 on a file name
ShouldClean(file) ==
    \/ file \in {<<"_remote", ".repositories">>, <<"resolver-status", ".properties">>,
                 <<".lastUpdated">>}
    \/ file[Len(file)] \in {".lastUpdated", ".repositories"}
    \/ \E i \in 1..Len(file) : file[i] \in {".lastUpdated", "lastUpdated"}

\* the paths of S in an order os.walk can give them; bottom_up lists a
\* directory after the directories below it (topdown=False)
RECURSIVE Listed(_, _)
Listed(S, bottom_up) ==
    IF S = {} THEN <<>>
    ELSE LET x == CHOOSE p \in S : bottom_up => \A q \in S : Len(q) <= Len(p)
         IN  <<x>> \o Listed(S \ {x}, bottom_up)

CleanupReport == << <<"cache-cleanup-report", ".txt">> >>

\* one iteration of the loop of clean_cache_directories (lines 40-62) on
\* st = [fs, cleaned, errors]; when rmtree fails on a locked file, the files
\* in gone were deleted before it
CleanCacheDir(st, cache_dir, gone, dry_run) ==
    LET cache_path == <<cache_dir>>
    IN  IF cache_path \notin st.fs.dirs \/ dry_run THEN st
        ELSE IF Below(st.fs.files, cache_path) \cap locked = {}
        THEN [fs      |-> Rmtree(st.fs, cache_path),
              cleaned |-> Append(st.cleaned, cache_path),
              errors  |-> st.errors]
        ELSE [fs      |-> [st.fs EXCEPT !.files = @ \ gone],
              cleaned |-> st.cleaned,
              errors  |-> st.errors \cup {cache_path}]

\* clean_cache_directories (lines 36-62)
clean_cache_directories ==
    /\ pc = "cleaner"
    /\ \E gone1 \in SUBSET (Below(repo_fs.files, <<CacheDirNames[1]>>) \ locked),
          gone2 \in SUBSET (Below(repo_fs.files, <<CacheDirNames[2]>>) \ locked) :
         LET st0   == [fs |-> repo_fs, cleaned |-> cleaned_dirs, errors |-> errors]
             st1   == CleanCacheDir(st0, CacheDirNames[1], gone1, cleaner.dry_run)
             after == CleanCacheDir(st1, CacheDirNames[2], gone2, cleaner.dry_run)
         IN  /\ repo_fs' = after.fs
             /\ cleaned_dirs' = after.cleaned
             /\ errors' = after.errors
    /\ swept' = swept \cup {"clean_cache_directories"}
    /\ UNCHANGED <<pc, cleaner, locked, cleaned_files, files_to_clean, cleaning,
                   all_dirs, tracer_vars>>

\* find_and_clean_cache_files up to the choice of the path (lines 94-135)
find_cache_files ==
    /\ pc = "cleaner"
    /\ LET found == {f \in repo_fs.files :
                       ~InCacheDir(Parent(f)) /\ ShouldClean(f[Len(f)])}
       IN  IF found = {}
           THEN /\ swept' = swept \cup {"nothing to clean"}
                /\ UNCHANGED <<pc, files_to_clean>>
           ELSE /\ files_to_clean' = Listed(found, FALSE)
                /\ pc' = (IF Cardinality(found) < SweepPoolThreshold
                          THEN "clean_seq" ELSE "clean_pool")
                /\ UNCHANGED swept
    /\ UNCHANGED <<cleaner, repo_fs, locked, cleaned_files, cleaned_dirs, errors,
                   cleaning, all_dirs, tracer_vars>>

\* the calling thread cleans one file at a time, the pool max_workers
SweepCapacity == IF pc = "clean_pool" THEN cleaner.threads ELSE 1

\* clean_file that unlinks in a dry run too
clean_file_IgnoresDryRun ==
    /\ pc \in {"clean_seq", "clean_pool"} /\ files_to_clean # <<>>
    /\ Cardinality(cleaning) < SweepCapacity
    /\ LET file_path == Head(files_to_clean)
       IN  /\ files_to_clean' = Tail(files_to_clean)
           /\ IF file_path \in locked
              THEN /\ errors' = errors \cup {file_path}
                   /\ UNCHANGED <<repo_fs, cleaning>>
              ELSE /\ repo_fs' = [repo_fs EXCEPT !.files = @ \ {file_path}]
                   /\ cleaning' = cleaning \cup {file_path}
                   /\ UNCHANGED errors
    /\ UNCHANGED <<pc, cleaner, locked, cleaned_files, cleaned_dirs, all_dirs, swept,
                   tracer_vars>>

\* clean_file up to file_path.unlink() (lines 64-71, 74-78): a dry run
\* returns True at once, a failed unlink records the error and returns False
clean_file ==
    /\ pc \in {"clean_seq", "clean_pool"} /\ files_to_clean # <<>>
    /\ Cardinality(cleaning) < SweepCapacity
    /\ LET file_path == Head(files_to_clean)
       IN  /\ files_to_clean' = Tail(files_to_clean)
           /\ IF cleaner.dry_run
              THEN UNCHANGED <<repo_fs, cleaning, errors>>
              ELSE IF file_path \in locked
              THEN /\ errors' = errors \cup {file_path}
                   /\ UNCHANGED <<repo_fs, cleaning>>
              ELSE /\ repo_fs' = [repo_fs EXCEPT !.files = @ \ {file_path}]
                   /\ cleaning' = cleaning \cup {file_path}
                   /\ UNCHANGED errors
    /\ UNCHANGED <<pc, cleaner, locked, cleaned_files, cleaned_dirs, all_dirs, swept,
                   tracer_vars>>

\* self.cleaned_files.append(str(file_path)); return True (lines 72-73)
file_cleaned ==
    /\ pc \in {"clean_seq", "clean_pool"}
    /\ \E file_path \in cleaning :
         /\ cleaned_files' = cleaned_files (+) SetToBag({file_path})
         /\ cleaning' = cleaning \ {file_path}
    /\ UNCHANGED <<pc, cleaner, repo_fs, locked, cleaned_dirs, errors, files_to_clean,
                   all_dirs, swept, tracer_vars>>

\* every call of clean_file has returned (lines 137-154)
files_cleaned ==
    /\ pc \in {"clean_seq", "clean_pool"}
    /\ files_to_clean = <<>> /\ cleaning = {}
    /\ swept' = swept \cup {pc}
    /\ pc' = "cleaner"
    /\ UNCHANGED <<cleaner, repo_fs, locked, cleaned_files, cleaned_dirs, errors,
                   files_to_clean, cleaning, all_dirs, tracer_vars>>

\* clean_empty_directories up to its second loop (lines 158-164)
list_directories ==
    /\ pc = "cleaner"
    /\ all_dirs' = Listed(repo_fs.dirs, TRUE)
    /\ pc' = "empty_dirs"
    /\ UNCHANGED <<cleaner, repo_fs, locked, cleaned_files, cleaned_dirs, errors,
                   files_to_clean, cleaning, swept, tracer_vars>>

\* one iteration of the second loop (lines 166-191)
clean_empty_directory ==
    /\ pc = "empty_dirs" /\ all_dirs # <<>>
    /\ all_dirs' = Tail(all_dirs)
    /\ LET dir_path == Head(all_dirs)
       IN  IF \/ dir_path = <<>> \/ InCacheDir(dir_path)
              \/ dir_path \notin repo_fs.dirs \/ ~IsEmptyDir(repo_fs, dir_path)
              \/ cleaner.dry_run
           THEN UNCHANGED <<repo_fs, cleaned_dirs>>
           ELSE /\ repo_fs' = [repo_fs EXCEPT !.dirs = @ \ {dir_path}]
                /\ cleaned_dirs' = Append(cleaned_dirs, dir_path)
    /\ UNCHANGED <<pc, cleaner, locked, cleaned_files, errors, files_to_clean,
                   cleaning, swept, tracer_vars>>

\* clean_empty_directories returns (line 193)
directories_cleaned ==
    /\ pc = "empty_dirs" /\ all_dirs = <<>>
    /\ swept' = swept \cup {"clean_empty_directories"}
    /\ pc' = "cleaner"
    /\ UNCHANGED <<cleaner, repo_fs, locked, cleaned_files, cleaned_dirs, errors,
                   files_to_clean, cleaning, all_dirs, tracer_vars>>

\* generate_report (lines 195-257): the report file is written unless dry_run
generate_report ==
    /\ pc = "cleaner"
    /\ repo_fs' = (IF cleaner.dry_run THEN repo_fs ELSE WriteFile(repo_fs, CleanupReport))
    /\ swept' = swept \cup {"generate_report"}
    /\ UNCHANGED <<pc, cleaner, locked, cleaned_files, cleaned_dirs, errors,
                   files_to_clean, cleaning, all_dirs, tracer_vars>>

(* The bounded universe of repositories to clean *)

VersionDir == PathParts(ArtifactPath(G_foo, <<"bar">>, V10))

CacheIndex    == <<(<<".cache">>), (<<"index", ".lastUpdated">>)>>
StaleMarker   == Append(VersionDir, <<"_remote", ".repositories">>)
StaleJar      == Append(VersionDir, JarName(<<"bar">>, V10) \o <<".lastUpdated">>)
StaleResolver == <<(<<"org">>), (<<"old">>), (<<"resolver-status", ".properties">>)>>
Stale(i)      == <<(<<"lib">>), (<<"f", ToString(i), ".lastUpdated">>)>>

\* parts a repository can hold: [files, dirs]
CacheParts    == [files |-> {CacheIndex}, dirs |-> {<<(<<".meta">>)>>}]
ArtifactParts == [files |-> {Append(VersionDir, JarName(<<"bar">>, V10)),
                             StaleMarker, StaleJar},
                  dirs  |-> {}]
OldParts      == [files |-> {StaleResolver}, dirs |-> {<<(<<"org">>), (<<"empty">>)>>}]
FillParts     == [files |-> {Stale(i) : i \in 1..NumStale}, dirs |-> {}]

RepoWith(parts) ==
    LET fs == UNION {x.files : x \in parts}
        ds == UNION {x.dirs : x \in parts}
    IN  [files |-> fs,
         dirs  |-> {<<>>} \cup UNION {WithParents(Parent(f)) : f \in fs}
                   \cup UNION {WithParents(d) : d \in ds}]

Repos ==
    {RepoWith(parts) : parts \in SUBSET {CacheParts, ArtifactParts, OldParts}}
    \cup {RepoWith({CacheParts, ArtifactParts, OldParts, FillParts})}

\* a cleaner right after construction (lines 22-29) on an existing repository
InitSweep ==
    /\ pc = "cleaner" /\ Constructed
    /\ args = Args(TRUE, FALSE, 1)
    /\ project = Project({})
    /\ prev_report = NoReport
    /\ source_fs = EmptyFS /\ unreadable = {} /\ target_fs = EmptyFS
    /\ cleaner \in {[dry_run |-> d, threads |-> t] : d \in BOOLEAN, t \in {1, MaxWorkers}}
    /\ repo_fs \in Repos
    /\ locked \in {{}} \cup {{f} : f \in {CacheIndex, StaleJar} \cap repo_fs.files}
    /\ cleaned_files = EmptyBag /\ cleaned_dirs = <<>> /\ errors = {}
    /\ files_to_clean = <<>> /\ cleaning = {} /\ all_dirs = <<>> /\ swept = {}

NextSweep ==
    \/ clean_cache_directories
    \/ find_cache_files
    \/ clean_file
    \/ file_cleaned
    \/ files_cleaned
    \/ list_directories
    \/ clean_empty_directory
    \/ directories_cleaned
    \/ generate_report

SpecSweep == InitSweep /\ [][NextSweep]_vars

----------------------------------------------------------------------------
(* Claims about the classifier *)

Buckets(ma) == [n \in BucketNames |->
    Range(CASE n = "essential" -> ma.essential [] n = "optional" -> ma.optional
            [] n = "provided" -> ma.provided [] n = "plugin" -> ma.plugin
            [] n = "conflict" -> ma.conflict)]

\* C1: for any table and any list of missing keys, the empty one included,
\* analyze_missing_dependencies yields the five buckets, pairwise disjoint,
\* whose union is exactly the set of missing keys.
C1_FiveWayPartition ==
    pc = "classified" =>
        /\ ~missing_analysis.none
        /\ \A m, n \in BucketNames :
             m # n => Buckets(missing_analysis)[m] \cap Buckets(missing_analysis)[n] = {}
        /\ UNION {Buckets(missing_analysis)[n] : n \in BucketNames}
             = Range(missing_dependencies)

\* C2: each missing key goes to the first matching bucket in the order
\* excluded -> conflict, provided scope -> provided, optional -> optional,
\* maven-plugin packaging -> plugin, else essential; so an excluded, provided
\* or optional key is never essential.
C2_Precedence ==
    (pc = "classified" /\ ~missing_analysis.none) =>
        \A k \in Range(missing_dependencies) :
            LET i  == dependencies[k]
                in(n) == k \in Buckets(missing_analysis)[n]
            IN  /\ in("conflict")  <=> i.excluded
                /\ in("provided")  <=> (~i.excluded /\ i.scope = "provided")
                /\ in("optional")  <=> (~i.excluded /\ i.scope # "provided" /\ i.optional)
                /\ in("plugin")    <=> (~i.excluded /\ i.scope # "provided" /\ ~i.optional
                                          /\ i.packaging = "maven-plugin")
                /\ in("essential") <=> (~i.excluded /\ i.scope # "provided" /\ ~i.optional
                                          /\ i.packaging # "maven-plugin")
                /\ (i.excluded \/ i.scope = "provided" \/ i.optional) => ~in("essential")

\* a provided-scope, optional plugin and an optional plugin were both classified
C2_Witness ==
    /\ pc = "classified" /\ ~missing_analysis.none
    /\ \E k \in Range(missing_analysis.provided) :
         dependencies[k].optional /\ dependencies[k].packaging = "maven-plugin"
    /\ \E k \in Range(missing_analysis.optional) :
         dependencies[k].packaging = "maven-plugin"

----------------------------------------------------------------------------
(* Claims about mirroring and the exit status *)

FailuresOf(k) == Cardinality({i \in 1..Len(failed_copies) : failed_copies[i].key = k})

Mirrored(k) == CopiesIn(<<k, TRUE>>, returned) > 0

\* C3: on every entry path (full mirroring, or the retry of the keys of a
\* previous report) copy_dependency_with_tracking is never executed for a key
\* whose current record is excluded, and no file of such a key is written.
C3_ExcludedNeverCopied ==
    \A k \in DOMAIN dependencies :
        dependencies[k].excluded =>
            calls[k] = 0 /\ ~\E w \in written : w[1] = k

\* C4: when the run found a dependency and every non-excluded artifact was
\* mirrored (missing list and failure list both empty after mirroring), the
\* report is generated and main returns 0.
C4_FullSuccessExitsZero ==
    (/\ pc = "done"
     /\ ~args.analyze_only
     /\ \E k \in DOMAIN dependencies : Mirrored(k)
     /\ \A k \in DOMAIN dependencies : ~dependencies[k].excluded => Mirrored(k)
     /\ missing_dependencies = <<>> /\ failed_copies = <<>>)
        => exit_status = <<0>> /\ ReportFile \in target_fs.files

\* C5: if at the end of the run a non-excluded, non-provided, non-optional
\* artifact failed to be mirrored, whatever the failure category, main
\* returns 1.
C5_CriticalFailureExitsOne ==
    (/\ pc = "done"
     /\ \E k \in DOMAIN dependencies :
          /\ ~dependencies[k].excluded /\ dependencies[k].scope # "provided"
          /\ ~dependencies[k].optional
          /\ FailuresOf(k) > 0 /\ ~Mirrored(k))
        => exit_status = <<1>>

\* C8: every call of copy_dependency_with_tracking that returns False adds
\* exactly one entry for its key to failed_copies, a call that returns True
\* none (a call that has recorded its entry and not yet returned counts).
C8_EveryFailureRecorded ==
    \A k \in AllKeys :
        FailuresOf(k) = CopiesIn(<<k, FALSE>>, returned)
                          + (IF k \in DOMAIN running /\ running[k].pc = "missing"
                             THEN 1 ELSE 0)

Unresolved == {<<>>, <<"LATEST">>}

\* C6: a call on an artifact whose version is absent, empty or LATEST returns
\* False and records one failure entry, whether or not a source directory
\* exists, and creates nothing in the target repository.
C6_UnresolvedVersionFails ==
    [][\A k \in AllKeys :
        (CopyBegin(k) /\ k \in DOMAIN dependencies
                      /\ dependencies[k].version \in Unresolved)
          => /\ target_fs' = target_fs
             /\ Len(failed_copies') = Len(failed_copies) + 1
             /\ failed_copies'[Len(failed_copies')].key = k
             /\ SubSeq(failed_copies', 1, Len(failed_copies)) = failed_copies
             /\ returned' = returned (+) SetToBag({<<k, FALSE>>})
             /\ k \notin DOMAIN running']_vars

\* a LATEST artifact whose source directory exists was attempted and recorded
C6_Witness ==
    \E k \in DOMAIN dependencies :
        /\ dependencies[k].version = <<"LATEST">>
        /\ ArtifactDir(dependencies[k]) \in source_fs.dirs
        /\ calls[k] > 0 /\ FailuresOf(k) = 1 /\ CopiesIn(<<k, FALSE>>, returned) = 1

\* C7: a call on an artifact with a concrete version whose source directory
\* does not exist records a failure entry carrying exactly the chains recorded
\* for the key, appends the key to the missing list, returns False, and
\* changes neither the chain map nor the target repository.
C7_SourceMissingRecorded ==
    [][\A k \in AllKeys :
        /\ (CopyBegin(k) /\ k \in DOMAIN dependencies
                         /\ dependencies[k].version \notin Unresolved
                         /\ ~Exists(source_fs, ArtifactDir(dependencies[k])))
             => /\ target_fs' = target_fs
                /\ dependency_chains' = dependency_chains
                /\ Len(failed_copies') = Len(failed_copies) + 1
                /\ failed_copies'[Len(failed_copies')].key = k
                /\ failed_copies'[Len(failed_copies')].chains
                     = (IF k \in DOMAIN dependency_chains THEN dependency_chains[k] ELSE <<>>)
                /\ k \in DOMAIN running' /\ running'[k].pc = "missing"
        /\ (k \in DOMAIN running /\ running[k].pc = "missing" /\ k \notin DOMAIN running')
             => /\ target_fs' = target_fs
                /\ dependency_chains' = dependency_chains
                /\ missing_dependencies' = Append(missing_dependencies, k)
                /\ failed_copies' = failed_copies
                /\ returned' = returned (+) SetToBag({<<k, FALSE>>})]_vars

\* a key reached through a parent was found missing in the source repository
C7_Witness ==
    \E i \in 1..Len(failed_copies) :
        /\ failed_copies[i].error = "source"
        /\ failed_copies[i].chains # <<>>
        /\ failed_copies[i].key \in Range(missing_dependencies)
        /\ CopiesIn(<<failed_copies[i].key, FALSE>>, returned) = 1

\* C9: no failure leaves copy_dependency_with_tracking: once
\* copy_all_dependencies_with_tracking has returned, every non-excluded key
\* was attempted exactly once and has returned, each failure as one record,
\* on the sequential and on the worker-pool path.
C9_EveryActiveKeyAttemptedOnce ==
    (/\ pc \in {"report", "summary", "done"}
     /\ ~args.analyze_only
     /\ ~(args.copy_missing_only /\ ~prev_report.none)
     /\ DOMAIN dependencies # {})
        => \A k \in DOMAIN dependencies :
             ~dependencies[k].excluded
               => /\ calls[k] = 1
                  /\ CopiesIn(<<k, TRUE>>, returned) + CopiesIn(<<k, FALSE>>, returned) = 1
                  /\ FailuresOf(k) = CopiesIn(<<k, FALSE>>, returned)

\* the worker pool has finished a project in which one artifact was missing in
\* the source repository, one failed while copying, and the other ones succeeded
C9_Witness ==
    /\ pc = "report" /\ DOMAIN futures # {}
    /\ \E i, j \in 1..Len(failed_copies) :
         /\ failed_copies[i].error = "source" /\ failed_copies[j].error = "copy"
         /\ \E k \in DOMAIN futures :
              /\ futures[k] /\ calls[k] = 1
              /\ calls[failed_copies[i].key] = 1 /\ calls[failed_copies[j].key] = 1

\* C10: during parallel mirroring no target path is written for two distinct
\* keys of the active set (files of the version directory and metadata files
\* of its parent directory alike).
C10_DisjointTargets ==
    (pc = "pool" \/ DOMAIN futures # {})
        => \A v, w \in written : v[1] # w[1] => v[2] # w[2]

\* C11: mirroring is idempotent per artifact: once a call of
\* copy_dependency_with_tracking for a key has returned True, a further call
\* for the same key (source repository unchanged) adds no file and no
\* directory to the target repository, records no failure and returns True.
C11_MirrorIdempotent ==
    [][\A k \in AllKeys :
        (/\ Mirrored(k)
         /\ CopyBegin(k) \/ CopyMissing(k) \/ CopyFile(k) \/ CopyReturn(k) \/ CopyExcept(k))
          => /\ target_fs' = target_fs
             /\ failed_copies' = failed_copies
             /\ missing_dependencies' = missing_dependencies
             /\ CopiesIn(<<k, FALSE>>, returned') = 0
             /\ k \in DOMAIN running' \/ CopiesIn(<<k, TRUE>>, returned') = calls'[k]]_vars

\* the same key was mirrored twice, both calls returned True and wrote files
C11_Witness ==
    \E k \in DOMAIN dependencies :
        /\ calls[k] = 2 /\ CopiesIn(<<k, TRUE>>, returned) = 2
        /\ \E w \in written : w[1] = k /\ w[2] \in target_fs.files
        /\ \E f \in DOMAIN copied_files : copied_files[f] = 2

----------------------------------------------------------------------------
(* Claims about the tree passes *)

Front(s) == SubSeq(s, 1, Len(s) - 1)

\* the lines of s that name a node
NodeLines(s) == SelectSeq(s, LAMBDA l : l.node # <<>>)

\* the depth the code computes for a line of the verbose text
LevelOf(l) == IndentLevel(l.text) \div IndentWidth

\* the root-to-node path of the last node of a printed tree, from the depths
\* the nodes were printed at
RECURSIVE TreePath(_)
TreePath(nodes) ==
    IF nodes = <<>> THEN <<>>
    ELSE LET n == nodes[Len(nodes)].node
         IN  Append(SubSeq(TreePath(Front(nodes)), 1, n[1]), n[2])

\* a tree printed from its root: the first node at depth 0, no node more than
\* one level below the node before it, one width for every level
Uniform(nodes) ==
    /\ nodes # <<>>
    /\ nodes[1].node[1] = 0
    /\ \A i \in 2..Len(nodes) : nodes[i].node[1] <= nodes[i - 1].node[1] + 1
    /\ \A i \in 1..Len(nodes) : nodes[i].width = nodes[1].width

\* C12 as stated: in the primary pass, for a tree printed with any fixed
\* uniform width per level, from a root at depth 0 and never more than one
\* level deeper than the line before, the chain of every node is its full
\* root-to-node path.
C12_UniformTreeChains ==
    (pc = "verbose" /\ Uniform(NodeLines(seen)))
        => LET nodes == NodeLines(seen)
               key   == nodes[Len(nodes)].node[2]
           IN  /\ current_chain = TreePath(nodes)
               /\ dependencies[key].chain = TreePath(nodes)

\* C12 amended: the same, for a tree printed with exactly three structural
\* characters per level.
C12_ThreeWideTreeChains ==
    (pc = "verbose" /\ Uniform(NodeLines(seen))
                    /\ NodeLines(seen)[1].width = IndentWidth)
        => LET nodes == NodeLines(seen)
               key   == nodes[Len(nodes)].node[2]
           IN  /\ current_chain = TreePath(nodes)
               /\ dependencies[key].chain = TreePath(nodes)

\* a three-wide tree was read to its end and its last node lies two levels
\* below the root
C12_Witness ==
    /\ pc = "verbose" /\ stdout = <<>>
    /\ Uniform(NodeLines(seen)) /\ NodeLines(seen)[1].width = IndentWidth
    /\ Len(current_chain) = 3 /\ current_chain = TreePath(NodeLines(seen))

\* C13: in the primary pass and in the rebuild pass, the chain produced for a
\* node has at most (computed depth + 1) keys, and fewer exactly when the
\* computed depth is greater than the length of the stack before the node,
\* that is when the depth jumps past the stack.
C13_ChainMonotone ==
    [][/\ (pc = "verbose" /\ stdout # <<>> /\ stdout' = Tail(stdout)
                          /\ Head(stdout).node # <<>>)
            => LET level == ChainLevel(IndentLevel(Head(stdout).text))
               IN  /\ Len(current_chain') <= level + 1
                   /\ Len(current_chain') < level + 1 <=> level > Len(current_chain)
       /\ (pc = "rebuild" /\ stdout # <<>> /\ stdout' = Tail(stdout)
                          /\ Head(stdout).node # <<>>)
            => LET level == RebuildLevel(IndentLevel(Head(stdout).text))
                   key   == Head(stdout).node[2]
               IN  /\ Len(stack') <= level + 1
                   /\ Len(stack') < level + 1 <=> level > Len(stack)
                   /\ key \in DOMAIN dependencies
                        => LET chains == dependency_chains'[key]
                           IN  chains[Len(chains)] = stack']_vars

\* the second node read lies two levels below the first one and got a chain of
\* two keys
C13_Witness ==
    /\ pc = "verbose" /\ Len(seen) = 2
    /\ seen[1].node # <<>> /\ seen[2].node # <<>>
    /\ LevelOf(seen[1]) = 0 /\ LevelOf(seen[2]) = 2
    /\ Len(current_chain) = 2

\* C14: in one run the table is filled from tree text by at most one of the
\* two parsers: the verbose invocation comes first, the plain invocation and
\* the plain parser only after the verbose invocation failed, and then the
\* table holds no record of the verbose parser.
C14_OneTreeParser ==
    /\ invocations # <<>> => invocations[1].cmd = "verbose"
    /\ \A i \in 1..Len(invocations) :
         invocations[i].cmd = "plain" => i = 2 /\ invocations[1].outcome # "ok"
    /\ Cardinality({p[2] : p \in parsed_by}) <= 1
    /\ (pc = "simple" \/ \E p \in parsed_by : p[2] = "simple")
         => /\ invocations[1].outcome # "ok"
            /\ \A k \in DOMAIN dependencies :
                 "conflict_version" \notin DOMAIN dependencies[k]

\* the verbose invocation failed and the plain parser stored a record
C14_Witness ==
    /\ pc = "analyzed"
    /\ \E p \in parsed_by : p[2] = "simple" /\ p[1] \in DOMAIN dependencies

\* C15: whatever the failure of the verbose invocation (non-zero exit,
\* timeout, OS error), the analysis does not end: the plain invocation
\* follows and the later passes run.
C15_AnyFailureRecovered ==
    (invocations # <<>> /\ invocations[1].outcome # "ok")
        => /\ pc # "done" /\ exit_status = NoExit
           /\ pc # "plain" => Len(invocations) >= 2 /\ invocations[2].cmd = "plain"

\* C16: the level stored in a record is the depth of the first line that
\* named the key; a later line for the key at another depth does not change it.
C16_LevelOfFirstSighting ==
    pc = "verbose" =>
        \A k \in DOMAIN dependencies :
            LET nodes == NodeLines(seen)
                first == Min({i \in 1..Len(nodes) : nodes[i].node[2] = k})
            IN  dependencies[k].level = LevelOf(nodes[first])

\* the lines read so far that named key k
LinesNaming(k) == {i \in 1..Len(NodeLines(seen)) : NodeLines(seen)[i].node[2] = k}

\* C17 as stated: after the primary pass the number of chains recorded for a
\* key is the number of lines that named it, depth 0 included.
C17_OneChainPerLine ==
    pc = "verbose" =>
        \A k \in {n[2] : n \in {l.node : l \in Range(NodeLines(seen))}} :
            Len(ChainsGet(dependency_chains, k)) = Cardinality(LinesNaming(k))

\* C17 amended: a line records one chain, the stack after the line, only when
\* that stack holds more than one key, that is for every line at a computed
\* depth of 1 or more that is not the first node of the text; the number of
\* chains recorded for a key is the number of such lines that named it.
C17_OneChainPerNestedLine ==
    pc = "verbose" =>
        LET nodes == NodeLines(seen)
        IN  /\ \A k \in {nodes[i].node[2] : i \in 1..Len(nodes)} :
                 Len(ChainsGet(dependency_chains, k))
                   = Cardinality({i \in LinesNaming(k) : i > 1 /\ LevelOf(nodes[i]) >= 1})
            /\ \A k \in DOMAIN dependency_chains :
                 \A i \in 1..Len(dependency_chains[k]) : Len(dependency_chains[k][i]) > 1
            /\ (Len(nodes) > 1 /\ LevelOf(nodes[Len(nodes)]) >= 1)
                 => LET chains == dependency_chains[nodes[Len(nodes)].node[2]]
                    IN  chains[Len(chains)] = current_chain

\* a key was named on three lines, the first at depth 0, and has two chains
C17_Witness ==
    /\ pc = "verbose" /\ stdout = <<>>
    /\ \E k \in DOMAIN dependency_chains :
         /\ Cardinality(LinesNaming(k)) = 3 /\ Len(dependency_chains[k]) = 2
         /\ LevelOf(NodeLines(seen)[1]) = 0 /\ NodeLines(seen)[1].node[2] = k

\* C18: every chain stored in the chain map under key k is a non-empty
\* sequence of keys that ends with k, after any steps of the primary and of
\* the rebuild pass.
C18_ChainsEndWithKey ==
    \A k \in DOMAIN dependency_chains :
        \A i \in 1..Len(dependency_chains[k]) :
            LET chain == dependency_chains[k][i]
            IN  /\ chain # <<>>
                /\ chain[Len(chain)] = k
                /\ \A j \in 1..Len(chain) : chain[j] \in AllKeys

\* the rebuild pass stored a chain of two keys
C18_Witness ==
    /\ pc = "rebuild"
    /\ \E k \in DOMAIN dependency_chains :
         \E i \in 1..Len(dependency_chains[k]) : Len(dependency_chains[k][i]) = 2

\* the stack the truncate-and-append rule builds from the given lines alone
RECURSIVE StackAfter(_)
StackAfter(nodes) ==
    IF nodes = <<>> THEN <<>>
    ELSE LET before == StackAfter(Front(nodes))
             last   == nodes[Len(nodes)]
         IN  Append(SubSeq(before, 1, IF LevelOf(last) < Len(before)
                                      THEN LevelOf(last) ELSE Len(before)),
                    last.node[2])

\* C19: in the primary pass the stack after a node at depth 0 is that node's
\* key alone, and the stack after any later node is the one the lines from
\* that depth-0 node on produce by themselves, whatever was read before.
C19_RootResetsStack ==
    pc = "verbose" =>
        LET nodes == NodeLines(seen)
            roots == {i \in 1..Len(nodes) : LevelOf(nodes[i]) = 0}
        IN  roots # {} =>
              LET r == CHOOSE i \in roots : \A j \in roots : j <= i
              IN  /\ current_chain = StackAfter(SubSeq(nodes, r, Len(nodes)))
                  /\ r = Len(nodes) => current_chain = <<nodes[r].node[2]>>
                  /\ current_chain[1] = nodes[r].node[2]

\* a node at depth 0 was read after two nodes, the second below the first
C19_Witness ==
    /\ pc = "verbose" /\ Len(NodeLines(seen)) = 3
    /\ LevelOf(NodeLines(seen)[2]) = 1 /\ LevelOf(NodeLines(seen)[3]) = 0
    /\ current_chain = <<NodeLines(seen)[3].node[2]>>
    /\ dependency_chains # <<>>

\* C20: _build_dependency_chains starts the rebuild pass exactly when the
\* chain map holds no non-empty chain list; when the primary pass recorded a
\* chain, the rebuild pass does not run and the chain map stays as it is.
\* The rebuild pass is started nowhere else.
C20_RebuildOnlyWithoutChains ==
    [][/\ (pc = "chains" /\ pc' # "chains")
            => LET some == \E k \in DOMAIN dependency_chains :
                                dependency_chains[k] # <<>>
               IN  /\ invocations' # invocations <=> ~some
                   /\ some => /\ dependency_chains' = dependency_chains
                              /\ pc' = "analyzed" /\ stdout' = stdout
                   /\ ~some => /\ invocations'[Len(invocations')].cmd = "rebuild"
                               /\ dependency_chains' = dependency_chains
       /\ (pc # "chains" /\ invocations' # invocations)
            => invocations'[Len(invocations')].cmd # "rebuild"
       /\ pc' = "rebuild" => pc \in {"chains", "rebuild"}]_vars

\* the primary pass recorded a chain and the analysis ended without a rebuild
C20_Witness ==
    /\ pc = "analyzed"
    /\ \E k \in DOMAIN dependency_chains : dependency_chains[k] # <<>>
    /\ \E p \in parsed_by : p[2] = "verbose"
    /\ \A i \in 1..Len(invocations) : invocations[i].cmd # "rebuild"

----------------------------------------------------------------------------
(* Claims about the records of the table *)

\* the key an element of a POM names
ElementKey(l) == l.text

\* C21: the effective-configuration pass and the direct-configuration pass
\* leave every record of the table as it was and add records only for absent
\* keys that they read; a line of a tree parser that names a key replaces the
\* whole record of the key by the record of that line
C21_MergePolicy ==
    [][/\ pc \in {"pom", "direct"} =>
            /\ \A k \in DOMAIN dependencies :
                 k \in DOMAIN dependencies' /\ dependencies'[k] = dependencies[k]
            /\ \A k \in DOMAIN dependencies' \ DOMAIN dependencies :
                 \E i \in 1..Len(seen') : ElementKey(seen'[i]) = k
       /\ pc \in {"verbose", "simple"} /\ stdout # <<>> =>
            LET l == Head(stdout)
                k == l.node[2]
                r == dependencies'[k]
            IN  /\ k \in DOMAIN dependencies'
                /\ r.excluded = (pc = "verbose" /\ OmittedMarked(l.text))
                /\ r.level = (IF pc = "verbose" THEN ChainLevel(IndentLevel(l.text))
                              ELSE 0)
                /\ "conflict_version" \in DOMAIN r <=> pc = "verbose"
                /\ pc = "verbose" =>
                     r.conflict_version = (IF ConflictVersion(l.text) = <<>> THEN None
                                           ELSE ConflictVersion(l.text))
                /\ r.chain[Len(r.chain)] = k
                /\ "type" \notin DOMAIN r
      ]_vars

\* the tree pass stored two lines of foo:bar, the second over the first, and
\* the effective POM managed foo:bar at 2.0: the record is the one of the tree
C21_Witness ==
    /\ pc = "direct"
    /\ \E i \in 1..Len(seen) : seen[i].pass = "managed" /\ ElementKey(seen[i]) = KA
    /\ KA \in DOMAIN dependencies
    /\ "type" \notin DOMAIN dependencies[KA]
    /\ dependencies[KA].version = V10
    /\ KA \in DOMAIN dependency_chains /\ dependency_chains[KA] = <<(<<KA, KA>>)>>

\* the colon-separated segments of an identity text
RECURSIVE Segments(_)
Segments(s) ==
    LET colons == {i \in 1..Len(s) : s[i] = ":"}
    IN  IF colons = {} THEN <<s>>
        ELSE <<SubSeq(s, 1, Min(colons) - 1)>>
             \o Segments(SubSeq(s, Min(colons) + 1, Len(s)))

\* digits, a dot, digits at the start of a segment
NumericStart(seg) ==
    \E d \in 2..(Len(seg) - 1) :
        /\ \A i \in 1..(d - 1) : seg[i] \in DigitTokens
        /\ seg[d] = "." /\ seg[d + 1] \in DigitTokens

\* the line a tree parser has read last
LastLine == seen[Len(seen)]

C25_RealOccurrenceStaysActive ==
    pc = "verbose" /\ stdout = <<>> =>
        \A i \in 1..Len(seen) :
            ~OmittedMarked(seen[i].text) => seen[i].node[2] \in ActiveDeps(dependencies)

\* C27: the record of a line group:artifact:version:scope, on which the
\* correction step fires, has the scope the line ends with
C27_FourSegmentScope ==
    pc \in {"verbose", "simple"} /\ seen # <<>> =>
        \A lead \in MarkedLeads, form \in IdentityForms, marker \in Markers :
            LastLine = MarkedLine(lead, form, marker) =>
                LET segs == Segments(G_foo \o <<":", "bar">> \o form)
                IN  Len(segs) = 4 /\ NumericStart(segs[3]) =>
                        dependencies[KA].scope = Str(segs[4])

----------------------------------------------------------------------------
(* Claims about the outcome of mirroring and the report *)

\* C23: when every call for a key returned False, copied_files holds no path
\* the calls for that key wrote
C23_FailedCopyLeavesNoPath ==
    \A k \in AllKeys :
        CopiesIn(<<k, FALSE>>, returned) > 0 /\ ~Mirrored(k) =>
            \A w \in written : w[1] = k => ~BagIn(w[2], copied_files)

\* C24: when copy_all_dependencies_with_tracking returns, from the sequential
\* loop or from the pool, the success count plus the number of failure
\* entries is the number of non-excluded keys, no non-excluded key has two
\* failure entries, and every missing key is listed once and has a failure
\* entry
C24_OutcomeAccounting ==
    [][(pc \in {"seq", "pool"} /\ pc' = "report") =>
          (/\ success_count' + Len(failed_copies') =
                 Cardinality(ActiveDeps(dependencies'))
           /\ \A k \in ActiveDeps(dependencies) : FailuresOf(k) <= 1
           /\ \A i, j \in 1..Len(missing_dependencies) :
                 missing_dependencies[i] = missing_dependencies[j] => i = j
           /\ \A i \in 1..Len(missing_dependencies) :
                 FailuresOf(missing_dependencies[i]) = 1)]_vars

\* the pool has finished with successes, a missing source directory and a
\* failed copy
C24_Witness ==
    /\ pc = "report" /\ DOMAIN futures # {}
    /\ success_count > 0
    /\ missing_dependencies # <<>>
    /\ Len(failed_copies) > Len(missing_dependencies)

\* the report data generate_enhanced_report has written (line 731); nothing
\* it reads changes between the write and the summary
ReportData ==
    create_report_data(dependencies, dependency_chains, missing_dependencies,
                       failed_copies, missing_analysis)

\* C26: in the report of a mirroring run a record has status copied only if a
\* call for its key returned True in this run, and copied_dependencies counts
\* those keys
C26_CopiedMeansMirrored ==
    pc = "summary" /\ ~args.analyze_only =>
        /\ \A k \in DOMAIN dependencies :
             ReportData.all_dependencies[k].status = "copied" => Mirrored(k)
        /\ ReportData.statistics.copied_dependencies =
             Cardinality({k \in DOMAIN dependencies : Mirrored(k)})

----------------------------------------------------------------------------
(* Claims about the cache cleaner *)

\* C28: with dry_run set, no step of clean_cache_directories, of
\* find_and_clean_cache_files (in the calling thread or in the pool), of
\* clean_empty_directories or of generate_report changes the files and
\* directories of the repository, and cleaned_files and cleaned_dirs stay empty
C28_DryRunChangesNothing ==
    [][cleaner.dry_run =>
          /\ repo_fs' = repo_fs
          /\ cleaned_files' = EmptyBag
          /\ cleaned_dirs' = <<>>]_vars

\* a dry run has gone through the four operations, the files in the pool, on
\* a repository with a cache directory, stale files and an empty directory
C28_Witness ==
    /\ cleaner.dry_run
    /\ swept = {"clean_cache_directories", "clean_pool", "clean_empty_directories",
                "generate_report"}
    /\ CacheIndex \in repo_fs.files
    /\ StaleMarker \in repo_fs.files
    /\ <<(<<"org">>), (<<"empty">>)>> \in repo_fs.dirs

====
